---- MODULE Spec2Model ----
(***************************************************************************)
(* Model of the ILR scraper worker: the resumable crawl of a forum thread  *)
(* (apps/worker/src/sources/immigration-boards.ts, getPosts), the run      *)
(* loop that persists the resume cursor (apps/worker/src/scraper/          *)
(* runner.ts, runScraper) and the ingestion of a page's posts              *)
(* (processPostsInBatches) with the extraction engine's score              *)
(* (apps/worker/src/extraction/extractor.ts, extractCaseData).             *)
(***************************************************************************)
EXTENDS Integers, Sequences, FiniteSets, TLC

(***************************************************************************)
(* Program constants                                                       *)
(***************************************************************************)
\* immigration-boards.ts:17
MAX_CONSECUTIVE_FAILURES == 5
\* runner.ts:20
PAGES_PER_CHUNK == 10
\* runner.ts:17
BATCH_SIZE == 50
\* runner.ts:457 and 526: maxAttempts of the retried transactions
DB_MAX_ATTEMPTS == 3

\* extractor.ts:153: a wait of this many days or more is not believed
WAIT_LIMIT == 1000

\* extractor.ts:382: a date up to this many days ahead is accepted
FUTURE_DAYS == 30

\* extractor.ts:381: the day number of 1 January 2010
MIN_DAY == 2

\* part_007:40-42: the defaults of retryWithBackoff
INITIAL_DELAY_MS == 2000

BACKOFF_MULTIPLIER == 2

MAX_DELAY_MS == 30000

\* helpers.ts:5-6: the default bounds of the delay between two pages, in ms
RATE_LIMIT_MIN == 3000

RATE_LIMIT_MAX == 6000

\* immigration-boards.ts:68: the default of config.postsPerPage
POSTS_PER_PAGE == 25

(***************************************************************************)
(* Bounds of the model                                                     *)
(***************************************************************************)
\* pages of the thread of a single-thread run
MaxPages == 10
\* pages of each thread of a two-thread run
SmallPages == 2
\* session relaunches that replay one and the same page, up to which they are
\* counted
MaxReplays == 2
\* posts of the thread, by external id
MaxPosts == 2
\* posts of the thread that two concurrent runs ingest
MaxRacePosts == 1
\* new posts of one page, for the slicing into batches
MaxNewPosts == 101
\* written dates on each side of the limits of the extraction
MaxSpread == 2
\* tags and text runs of the markup of one post
MaxHtml == 6
\* options.maxAttempts of a call of retryWithBackoff
MaxAttempts == 3
\* crawl starts and session relaunches of one adapter
MaxSessions == 4
\* query parameters of a thread URL
MaxParams == 3
\* page numbers a page URL is built for
MaxUrlPage == 3
\* browsers one adapter launches
MaxBrowsers == 4

Max(a, b) == IF a >= b THEN a ELSE b

Min(a, b) == IF a <= b THEN a ELSE b

\* what getThreads returns: the page count of each thread of the source
ThreadConfigs == {<<MaxPages>>, <<SmallPages, SmallPages>>}

\* options.resume of the runs modelled: the long thread is crawled by
\* resuming runs, the short threads by resuming and by restarting runs
ResumeOptions(pages) == IF Len(pages) = 1 THEN {TRUE} ELSE BOOLEAN

VARIABLES
    \* ---- runScraper / module state of runner.ts
    pc,                  \* position of the run
    resume,              \* options.resume
    dryRun,              \* options.dryRun
    shutdownRequested,   \* runner.ts:32
    runStatus,           \* status of the ScrapeRun row of the run ("none": no row)
    i,                   \* index of the thread being processed (1-based)
    startFromPage,       \* runner.ts:192
    result,              \* what getPosts returned: how it ended and its progress
    currentScrapeRunId,  \* runner.ts:29: TRUE when it holds the id of the run's row
    \* ---- history of the run
    statusWrites,        \* terminal status writes made to the run's ScrapeRun row
    caught,              \* thread errors that reached the per-thread catch in the run
    ended,               \* how the last run ended: resolved, rejected, or process exit
    released,            \* gracefulShutdown has released the adapter
    cleanups,            \* calls of adapter.cleanup() made in the run
    wrote,               \* the run has made a database write
    \* ---- the source and the persistence boundary
    forumPages,          \* pages each thread really has
    rows,                \* Thread rows: lastScrapedPage, totalPages (0: null)
    \* ---- getPosts locals and adapter state
    totalPages,
    currentPage,
    consecutiveFailures,
    sessionLive,         \* the page object belongs to a connected browser
    browser,             \* immigration-boards.ts:47: "none" (null), "open", or
                         \* "dead" (a handle whose close() rejects)
    loaded,              \* page number the session has navigated to (0: none)
    stray,               \* a page attempt that lost the race against its timeout
    waitTime,            \* the delay slept since the last page attempt, 0: none
                         \* is still running against the page (followed until
                         \* the next attempt is over)
    \* ---- history variables
    firstFetched,        \* first page getPosts navigated to (0: none yet)
    cursorAtStart,       \* the thread's persisted lastScrapedPage when its crawl began
    lastSuccess,         \* last page whose onPageData completed in this crawl (0: none)
    outcome,             \* how the last page attempt, or the session launch, ended
    replays,             \* relaunch replays of the current page
    failedInRow,         \* failed page attempts in a row, counted up to the ceiling
    prevDelivered,       \* onPageData of page currentPage - 1 completed in this crawl
    lastWrite,           \* last Thread cursor write of this crawl
    firstUnsaved,        \* lowest page of this crawl with an attempt that did not
                         \* save all its posts (0: none)
    failedBefore,        \* a page attempt of this crawl failed before any shutdown request
    \* ---- the Post and ExtractedCase tables of the thread
    posts,               \* Post rows
    cases,               \* ExtractedCase rows
    lastIngest,          \* history: what the last processPostsInBatches call did
    inflight,            \* per concurrent run: the transactions its call has still to make
    \* ---- the extraction of one post
    now,                 \* extractor.ts:380: the day the worker's clock shows
    text,                \* the content handed to extractCaseData
    extracted,           \* what the last evaluation of the text returned
    earlier,             \* what the evaluation before the last returned
    \* ---- the cleaning of one post
    html,                \* raw.contentHtml: tags and text runs in document order
    plainText,           \* what stripHtmlWithQuotes returned for it: the text runs kept
    \* ---- the helpers on their own
    retry,               \* a call of retryWithBackoff: its options, locals and history
    popupState,          \* the adapter's flags of the obstructions already handled
    popupCall,           \* handlePopups: the block it is at, and what it has done
    urls,                \* a thread URL, and what stripSessionId and buildPageUrl made of it
    chromium             \* the adapter's browser handle and the browsers it launched

crawlVars == <<totalPages, currentPage, consecutiveFailures, sessionLive, browser,
               loaded, stray, waitTime>>

histVars == <<firstFetched, cursorAtStart, lastSuccess, outcome, replays,
              failedInRow, prevDelivered, lastWrite, firstUnsaved, failedBefore>>

runVars == <<pc, resume, dryRun, shutdownRequested, runStatus, i, startFromPage,
             result>>

lifeVars == <<currentScrapeRunId, statusWrites, caught, ended, released,
              cleanups, wrote>>

ingestVars == <<posts, cases, lastIngest>>

extractVars == <<now, text, extracted, earlier>>

cleanVars == <<html, plainText>>

helperVars == <<retry, popupState, popupCall, urls, chromium>>

vars == <<runVars, lifeVars, forumPages, rows, crawlVars, histVars, ingestVars,
          extractVars, cleanVars, helperVars,
          inflight>>

NoResult == [kind |-> "none", lastScrapedPage |-> 0, totalPages |-> 0]

NoWrite == [page |-> 0, advanced |-> FALSE, delivered |-> FALSE, written |-> FALSE]

NullRow == [lastScrapedPage |-> 0, totalPages |-> 0]

NoIngest == [ran |-> FALSE, allSame |-> FALSE, complete |-> FALSE,
             postWrites |-> 0, caseWrites |-> 0, extractCalls |-> 0]

Threads == 1..Len(forumPages)

(***************************************************************************)
(* Expressions of the code                                                 *)
(***************************************************************************)
shouldStop == shutdownRequested

\* runner.ts:160: dbThread is null in a dry run, so its cursor reads as unset
DbThreadCursor(dry, row) == IF dry THEN 0 ELSE row.lastScrapedPage

StartFromPageSkipsCursor(res, lsp) == IF res /\ lsp > 0 THEN lsp + 1 ELSE 1

\* runner.ts:192-196
StartFromPage(res, lsp) == IF res /\ lsp > 0 THEN lsp ELSE 1

\* immigration-boards.ts:656
TooManyFailures(cf) == cf >= MAX_CONSECUTIVE_FAILURES

\* immigration-boards.ts:683-685
FinalCursor(cf, cur, total) ==
    IF cf >= MAX_CONSECUTIVE_FAILURES THEN cur - cf ELSE total

\* immigration-boards.ts:696
ErrorCursor(cur, start) == Max(cur - 1, start)

CheckpointDueNever(dry, page) == FALSE

CheckpointDueInDryRun(dry, page) == page % PAGES_PER_CHUNK = 0

\* runner.ts:231
CheckpointDue(dry, page) == ~dry /\ page % PAGES_PER_CHUNK = 0

\* immigration-boards.ts:588
isFirstPage == currentPage = startFromPage

\* immigration-boards.ts:500-503: only a page that is not the first is navigated to
LoadedAfterNavigation == IF isFirstPage THEN loaded ELSE currentPage

\* immigration-boards.ts:689-699: the outer catch of getPosts
ErrorResult ==
    [kind |-> "error",
     lastScrapedPage |-> ErrorCursor(currentPage, startFromPage),
     totalPages |-> totalPages]

\* immigration-boards.ts:680-688
LoopResult(cf, cur, total) ==
    [kind |-> IF cf >= MAX_CONSECUTIVE_FAILURES THEN "abort" ELSE "normal",
     lastScrapedPage |-> FinalCursor(cf, cur, total),
     totalPages |-> total]

\* whether onPageData of page p has completed in this crawl; the cursors the code
\* writes are never below lastSuccess, nor below currentPage - 1 when that is
\* the page before the last success
DeliveredInCrawl(p) ==
    /\ p >= 1
    /\ \/ p = lastSuccess
       \/ p = currentPage - 1 /\ prevDelivered

WriteCursorAhead(page, total) ==
    /\ rows' = [rows EXCEPT ![i] = [lastScrapedPage |-> page + 1,
                                    totalPages |-> total]]
    /\ lastWrite' = [page |-> page + 1,
                     advanced |-> page + 1 > rows[i].lastScrapedPage,
                     delivered |-> DeliveredInCrawl(page + 1),
                     written |-> TRUE]
    /\ wrote' = TRUE

\* a Thread cursor write (prisma.thread.update) and its record in the history
WriteCursor(page, total) ==
    /\ rows' = [rows EXCEPT ![i] = [lastScrapedPage |-> page, totalPages |-> total]]
    /\ lastWrite' = [page |-> page,
                     advanced |-> page > rows[i].lastScrapedPage,
                     delivered |-> DeliveredInCrawl(page),
                     written |-> TRUE]
    /\ wrote' = TRUE

CatchThreadEndsRun ==
    /\ caught' = caught + 1
    /\ pc' = "finish" /\ i' = i

\* runner.ts:274-280: the per-thread catch
CatchThread ==
    /\ caught' = caught + 1
    /\ IF shouldStop THEN pc' = "finish" /\ i' = i
                     ELSE pc' = "thread" /\ i' = i + 1

\* the history of an attempt of the current page that did not save all its posts
Unsaved ==
    firstUnsaved' = IF firstUnsaved = 0 THEN currentPage ELSE firstUnsaved

\* the locals of getPosts and the history of its page loop end with the call
ForgetCrawl ==
    /\ stray' = FALSE
    /\ waitTime' = 0
    /\ startFromPage' = 1
    /\ totalPages' = 1
    /\ currentPage' = 1
    /\ consecutiveFailures' = 0
    /\ loaded' = 0
    /\ firstFetched' = 0
    /\ cursorAtStart' = 0
    /\ lastSuccess' = 0
    /\ outcome' = "none"
    /\ replays' = 0
    /\ failedInRow' = 0
    /\ prevDelivered' = FALSE
    /\ firstUnsaved' = 0
    /\ failedBefore' = FALSE

(***************************************************************************)
(* Ingestion of a page: content, hash, extraction                          *)
(*                                                                         *)
(* The content of a post is reduced to the signals the extraction patterns *)
(* read: the route (on a labelled line, as a standalone mention, or "10    *)
(* year"), the labelled application and decision dates as day numbers (0:  *)
(* no parsable date) and the outcome wording.  Scores are counted in half  *)
(* points, so that confidence = score / 10 is confidence20 / 20.           *)
(***************************************************************************)
NoDate == 0

Body(routeText, appliedOn, decidedOn, outcomeText) ==
    [label |-> routeText = "labeled",
     mention |-> CASE routeText = "standalone" -> "set"
                   [] routeText = "tenyear" -> "tenyear"
                   [] OTHER -> "none",
     typeWord |-> FALSE,
     appDay |-> appliedOn, bioDay |-> NoDate, decDay |-> decidedOn,
     approval |-> outcomeText = "approved",
     refusal |-> outcomeText = "rejected",
     pending |-> outcomeText = "pending", center |-> FALSE]

\* sample contents: one scoring exactly the threshold (0.3), one just above it
\* (0.35) and a full timeline (0.8)
Bodies ==
    { Body("labeled", NoDate, NoDate, "approved"),
      Body("labeled", MIN_DAY, NoDate, "none"),
      Body("labeled", MIN_DAY, MIN_DAY + 1, "approved") }

\* the dates a post can write: none, the last day of 2009, the first days of
\* 2010, and days WAIT_LIMIT and WAIT_LIMIT - 1 days after those
Days ==
    {NoDate} \cup (MIN_DAY - 1)..(MIN_DAY + MaxSpread - 1)
             \cup (MIN_DAY + WAIT_LIMIT)..(MIN_DAY + WAIT_LIMIT + MaxSpread - 2)

\* the days on which the worker evaluates a post: the latest written date
\* passes from more than FUTURE_DAYS ahead to within FUTURE_DAYS
Clock ==
    (MIN_DAY + WAIT_LIMIT - FUTURE_DAYS - 1)
        ..(MIN_DAY + WAIT_LIMIT - FUTURE_DAYS + MaxSpread - 2)

\* every combination of the signals the patterns recognise
Contents ==
    [label : BOOLEAN, mention : {"none", "set", "tenyear"}, typeWord : BOOLEAN,
     appDay : Days, bioDay : {NoDate, MIN_DAY + 1}, decDay : Days,
     approval : BOOLEAN, refusal : BOOLEAN, pending : BOOLEAN,
     center : BOOLEAN]

ExternalIds == 1..MaxPosts

\* what a page can deliver: posts in page order, external ids distinct
PagesOver(ids) ==
    { page \in UNION { [1..n -> [externalId : ids, content : Bodies]] :
                         n \in 1..Cardinality(ids) } :
        \A k \in 1..(Len(page) - 1) :
            page[k].externalId < page[k + 1].externalId }

Pages == PagesOver(ExternalIds)

\* two runs of the worker against the same thread
Runs == {"a", "b"}

Idle == [txs |-> <<>>, attempts |-> 0]

RacePages == PagesOver(1..MaxRacePosts)

\* extractor.ts:379-385: the window is read off the clock of the evaluation
isReasonableDate(day, today) == day >= MIN_DAY /\ day <= today + FUTURE_DAYS

\* extractor.ts:303-374: the date a written day parses to, NoDate if none
parseFlexibleDate(day, today) ==
    IF day # NoDate /\ isReasonableDate(day, today) THEN day ELSE NoDate

ValidWaitInclusive(diffDays) == diffDays >= 0 /\ diffDays <= WAIT_LIMIT

\* extractor.ts:153
ValidWait(diffDays) == diffDays > 0 /\ diffDays < WAIT_LIMIT

routeScoreLabelBelowMention(labeled, mention) ==
    IF labeled THEN 1
    ELSE CASE mention = "set" -> 2 [] mention = "tenyear" -> 1 [] OTHER -> 0

\* extractor.ts:49-83 and 224-243: a labelled route scores 2, and only a post
\* without one is searched for a standalone mention (1, "10 year": 0.5)
routeScore(labeled, mention) ==
    IF labeled THEN 4
    ELSE CASE mention = "set" -> 2 [] mention = "tenyear" -> 1 [] OTHER -> 0

outcomeRefusalFirst(approval, refusal, pending) ==
    CASE refusal -> "rejected"
      [] approval -> "approved"
      [] pending -> "pending"
      [] OTHER -> "none"

\* extractor.ts:185-195: the first class with an indicator in the post wins
outcomeOf(approval, refusal, pending) ==
    CASE approval -> "approved"
      [] refusal -> "rejected"
      [] pending -> "pending"
      [] OTHER -> "none"

\* extractor.ts:24-293
extractCaseData(content) ==
    LET labeled == content.label
        decided == outcomeOf(content.approval, content.refusal, content.pending)
        applicationDate == parseFlexibleDate(content.appDay, now)
        biometricsDate == parseFlexibleDate(content.bioDay, now)
        decisionDate == parseFlexibleDate(content.decDay, now)
        hasBoth == applicationDate # NoDate /\ decisionDate # NoDate
        diffDays == decisionDate - applicationDate
        validDelta == hasBoth /\ ValidWait(diffDays)
        hasRoute == labeled \/ content.mention # "none"
        confidenceScore ==
            routeScore(labeled, content.mention)
          + (IF applicationDate # NoDate THEN 3 ELSE 0)
          + (IF biometricsDate # NoDate THEN 1 ELSE 0)
          + (IF decisionDate # NoDate THEN 3 ELSE 0)
          + (IF validDelta THEN 4 ELSE 0)
          + (CASE decided \in {"approved", "rejected"} -> 2
               [] decided = "pending" -> 1
               [] OTHER -> 0)
          + (IF content.center THEN 1 ELSE 0)
          + (IF ~hasRoute /\ content.typeWord THEN 1 ELSE 0)
        confidence20 == Min(confidenceScore, 20)
    IN  [applicationRoute |-> IF labeled THEN "labeled"
                              ELSE CASE content.mention = "set" -> "standalone"
                                     [] content.mention = "tenyear" -> "tenyear"
                                     [] OTHER -> "none",
         applicationType |-> hasRoute \/ content.typeWord,
         applicationDate |-> applicationDate,
         biometricsDate |-> biometricsDate,
         decisionDate |-> decisionDate,
         waitingDays |-> IF validDelta THEN diffDays ELSE 0,
         outcome |-> decided,
         serviceCenter |-> content.center,
         notes |-> (IF hasBoth /\ ~ValidWait(diffDays)
                       THEN {"Calculated waiting days seem invalid"} ELSE {})
                   \cup (IF confidence20 > 0 /\ confidence20 < 8
                            THEN {"Low confidence extraction"} ELSE {}),
         confidence20 |-> confidence20]

AcceptedAtThreshold(extraction) == extraction.confidence20 >= 6

\* runner.ts:429 and 488: extraction.confidence > 0.3
Accepted(extraction) == extraction.confidence20 > 6

\* the signals of a content as one number
Encode(content) ==
    LET r == IF content.label THEN 1 ELSE 0
        m == CASE content.mention = "none" -> 0
               [] content.mention = "set" -> 1
               [] OTHER -> 2
        o == (IF content.approval THEN 4 ELSE 0)
               + (IF content.refusal THEN 2 ELSE 0)
               + (IF content.pending THEN 1 ELSE 0)
        flags == (IF content.typeWord THEN 2 ELSE 0)
                   + (IF content.center THEN 1 ELSE 0)
        head == ((r * 3 + m) * 8 + o) * 4 + flags
        Mix(h, day) == (h * 2003 + day) % 1000003
    IN  Mix(Mix(Mix(head, content.appDay), content.bioDay), content.decDay)

\* helpers.ts:11-13: a digest of the content: a function of the content alone,
\* not the content itself, and free of collisions on the contents modelled
hashContent(content) == (Encode(content) * 31 + 17) % 2147483647

ChangedAlways(existingHash, postHash) == TRUE

\* runner.ts:385
Changed(existingHash, postHash) == existingHash # postHash

Existing(ps, externalId) == {r \in ps : r.externalId = externalId}

NoPostKey(ps, p) == FALSE

\* part_001:116-122: the unique key of a Post is (threadId, externalId); an
\* insert of p into ps would
\* violate it
ViolatesPostKey(ps, p) == Existing(ps, p.externalId) # {}

\* runner.ts:489: the unique key of an ExtractedCase is its postId
ViolatesCaseKey(cs, postId) == \E e \in cs : e.postId = postId

\* runner.ts:373-375
existingPostMap(ps, externalId) == CHOOSE r \in Existing(ps, externalId) : TRUE

\* runner.ts:381-388
newPosts(ps, page) ==
    SelectSeq(page, LAMBDA p : Existing(ps, p.externalId) = {})

changedPosts(ps, page) ==
    SelectSeq(page, LAMBDA p :
        /\ Existing(ps, p.externalId) # {}
        /\ Changed(existingPostMap(ps, p.externalId).contentHash,
                   hashContent(p.content)))

\* every post of the page is persisted with its external id and its body
AllPersistedSame(ps, page) ==
    \A k \in 1..Len(page) :
        \E r \in ps : r.externalId = page[k].externalId
                        /\ r.content = page[k].content

RECURSIVE Batches(_)
\* runner.ts:393-396: slices of BATCH_SIZE posts
Batches(seq) ==
    IF seq = <<>> THEN <<>>
    ELSE <<SubSeq(seq, 1, Min(BATCH_SIZE, Len(seq)))>>
           \o Batches(SubSeq(seq, BATCH_SIZE + 1, Len(seq)))

RECURSIVE CreatePosts(_, _)
\* runner.ts:401-412: post.createMany with skipDuplicates
CreatePosts(ps, batch) ==
    IF batch = <<>> THEN ps
    ELSE LET p == Head(batch)
             row == [id |-> <<p.externalId,
                               Cardinality(Existing(ps, p.externalId)) + 1>>,
                     externalId |-> p.externalId,
                     content |-> p.content,
                     contentHash |-> hashContent(p.content)]
         IN  CreatePosts(IF ViolatesPostKey(ps, p) THEN ps ELSE ps \cup {row},
                         Tail(batch))

InsertBatchPostsOnly(db, batch) ==
    [db EXCEPT !.posts = CreatePosts(db.posts, batch)]

\* runner.ts:399-452: the transaction of one batch of new posts
InsertBatch(db, batch) ==
    LET ps == CreatePosts(db.posts, batch)
        createdPosts == {r \in ps : \E k \in 1..Len(batch) :
                                        batch[k].externalId = r.externalId}
        casesToCreate ==
            {[postId |-> r.id, n |-> 1, extraction |-> extractCaseData(r.content)] :
                r \in {x \in createdPosts : Accepted(extractCaseData(x.content))}}
        created == {c \in casesToCreate : ~ViolatesCaseKey(db.cases, c.postId)}
    IN  [posts |-> ps,
         cases |-> db.cases \cup created,
         postWrites |-> db.postWrites + Cardinality(ps \ db.posts),
         caseWrites |-> db.caseWrites + Cardinality(created),
         extractCalls |-> db.extractCalls + Cardinality(createdPosts)]

\* runner.ts:474-522: the transaction of one changed post; existing is the row
\* found before the first write
UpdateChanged(db, existing, post) ==
    LET extraction == extractCaseData(post.content)
    IN  [posts |-> {IF r.id = existing.id
                        THEN [r EXCEPT !.content = post.content,
                                       !.contentHash = hashContent(post.content)]
                        ELSE r : r \in db.posts},
         cases |-> IF ~Accepted(extraction) THEN db.cases
                   ELSE IF ViolatesCaseKey(db.cases, existing.id)
                       THEN {IF c.postId = existing.id
                                 THEN [c EXCEPT !.extraction = extraction]
                                 ELSE c : c \in db.cases}
                       ELSE db.cases \cup {[postId |-> existing.id, n |-> 1,
                                            extraction |-> extraction]},
         postWrites |-> db.postWrites + 1,
         caseWrites |-> db.caseWrites + (IF Accepted(extraction) THEN 1 ELSE 0),
         extractCalls |-> db.extractCalls + 1]

\* the transactions processPostsInBatches runs for a page, in order
Transactions(ps, page) ==
    LET batches == Batches(newPosts(ps, page))
        changed == changedPosts(ps, page)
    IN  [k \in 1..Len(batches) |-> [kind |-> "create", batch |-> batches[k]]]
          \o [k \in 1..Len(changed) |->
                 [kind |-> "update", post |-> changed[k],
                  existing |-> existingPostMap(ps, changed[k].externalId)]]

RECURSIVE Commit(_, _, _)
\* the state of the tables after the first n transactions have committed
Commit(db, txs, n) ==
    IF n = 0 THEN db
    ELSE LET tx == Head(txs)
         IN  Commit(IF tx.kind = "create"
                        THEN InsertBatch(db, tx.batch)
                        ELSE UpdateChanged(db, tx.existing, tx.post),
                    Tail(txs), n - 1)

\* a call of processPostsInBatches on a page of which n transactions commit
Ingest(page, n, complete) ==
    LET db == Commit([posts |-> posts, cases |-> cases, postWrites |-> 0,
                      caseWrites |-> 0, extractCalls |-> 0],
                     Transactions(posts, page), n)
    IN  /\ posts' = db.posts
        /\ cases' = db.cases
        /\ lastIngest' = [ran |-> TRUE,
                          allSame |-> AllPersistedSame(posts, page),
                          complete |-> complete,
                          postWrites |-> db.postWrites,
                          caseWrites |-> db.caseWrites,
                          extractCalls |-> db.extractCalls]

(***************************************************************************)
(* Initial state: no run yet, no thread ever scraped                       *)
(***************************************************************************)
NoRunYet ==
    /\ pc = "idle"
    /\ resume = TRUE
    /\ dryRun = FALSE
    /\ shutdownRequested = FALSE
    /\ runStatus = "none"
    /\ i = 1
    /\ startFromPage = 1
    /\ result = NoResult
    /\ totalPages = 1
    /\ currentPage = 1
    /\ consecutiveFailures = 0
    /\ sessionLive = FALSE
    /\ browser = "none"
    /\ released = FALSE
    /\ cleanups = 0
    /\ wrote = FALSE
    /\ loaded = 0
    /\ stray = FALSE
    /\ waitTime = 0
    /\ firstFetched = 0
    /\ cursorAtStart = 0
    /\ lastSuccess = 0
    /\ outcome = "none"
    /\ replays = 0
    /\ failedInRow = 0
    /\ prevDelivered = FALSE
    /\ lastWrite = NoWrite
    /\ firstUnsaved = 0
    /\ failedBefore = FALSE
    /\ currentScrapeRunId = FALSE
    /\ statusWrites = 0
    /\ caught = 0
    /\ ended = "none"

NoPostYet ==
    /\ posts = {}
    /\ cases = {}
    /\ lastIngest = NoIngest
    /\ inflight = [r \in Runs |-> Idle]

(***************************************************************************)
(* Cleaning of a post: the markup is a sequence of blockquote tags and     *)
(* text runs; each text run is a different word, so that the text kept can *)
(* be told from the text removed                                           *)
(***************************************************************************)
OpenTag == "<blockquote>"

CloseTag == "</blockquote>"

Words == <<"a", "b", "c", "d", "e", "f", "g", "h">>

\* the properly nested markups of up to MaxHtml tags and text runs
Htmls ==
    LET Shapes == UNION { [1..n -> {OpenTag, CloseTag, "text"}] : n \in 0..MaxHtml }
        Opens(sh, k) == Cardinality({j \in 1..k : sh[j] = OpenTag})
        Closes(sh, k) == Cardinality({j \in 1..k : sh[j] = CloseTag})
        Nested(sh) == /\ \A k \in 1..Len(sh) : Closes(sh, k) <= Opens(sh, k)
                      /\ Closes(sh, Len(sh)) = Opens(sh, Len(sh))
    IN  { [k \in 1..Len(sh) |-> IF sh[k] = "text" THEN Words[k] ELSE sh[k]] :
            sh \in {x \in Shapes : Nested(x)} }

\* index of the first token tag of markup at or after position from, 0 if none
IndexOf(markup, tag, from) ==
    LET at == {k \in from..Len(markup) : markup[k] = tag}
    IN  IF at = {} THEN 0 ELSE CHOOSE k \in at : \A j \in at : k <= j

\* part_007:101: one replace(/<blockquote[^>]*>[\s\S]*?<\/blockquote>/gi, ''):
\* every match runs from the leftmost opening tag not yet passed to the first
\* closing tag after it, and the scan goes on behind the match
RECURSIVE ReplaceQuotes(_, _)
ReplaceQuotes(markup, from) ==
    LET open == IndexOf(markup, OpenTag, from)
        close == IF open = 0 THEN 0 ELSE IndexOf(markup, CloseTag, open + 1)
    IN  IF close = 0 THEN SubSeq(markup, from, Len(markup))
        ELSE SubSeq(markup, from, open - 1) \o ReplaceQuotes(markup, close + 1)

\* part_007:97-102: repeated until the length no longer changes
RECURSIVE RemoveBlockquotes(_)
RemoveBlockquotes(cleaned) ==
    LET replaced == ReplaceQuotes(cleaned, 1)
    IN  IF Len(replaced) = Len(cleaned) THEN replaced
        ELSE RemoveBlockquotes(replaced)

\* part_007:119-148: the tags that are left are dropped, the text is kept
htmlToPlainText(markup) ==
    SelectSeq(markup, LAMBDA token : token \notin {OpenTag, CloseTag})

\* part_007:92-114
stripHtmlWithQuotes(markup) == htmlToPlainText(RemoveBlockquotes(markup))

NotCleaned == <<"not cleaned">>

\* the helpers other than the named one have not been used: no call of
\* retryWithBackoff, popupState as created (immigration-boards.ts:51-56), no
\* URL handled, and browser = null (immigration-boards.ts:47)
HelpersIdle(except) ==
    /\ IF except = "retry" THEN TRUE
       ELSE retry = [maxAttempts |-> 0, maxDelayMs |-> 0, state |-> "none",
                     attempt |-> 0, calls |-> 0, currentDelay |-> 0,
                     waited |-> 0, lastError |-> 0, retryable |-> TRUE,
                     thrown |-> 0]
    /\ IF except = "popups" THEN TRUE
       ELSE /\ popupState = [f \in {"consent", "notifications", "login",
                                     "doNotShow"} |-> FALSE]
            /\ popupCall = [step |-> "idle", checked |-> FALSE, sessions |-> 0,
                            origin |-> "none"]
    /\ IF except = "urls" THEN TRUE
       ELSE urls = [threadUrl |-> <<>>, cleanUrl |-> <<>>, pageUrl |-> <<>>,
                    start |-> 0]
    /\ IF except = "chromium" THEN TRUE
       ELSE chromium = [handle |-> 0, open |-> {}, connected |-> {},
                        launched |-> 0, cleaned |-> FALSE]

\* no post has been handed to the extraction; the clock stands still unless
\* the specification lets it run
NoTextYet ==
    /\ now = MIN_DAY + WAIT_LIMIT - FUTURE_DAYS - 1
    /\ text = Body("none", NoDate, NoDate, "none")
    /\ extracted = <<>>
    /\ earlier = <<>>
    /\ html = <<>>
    /\ plainText = NotCleaned

Init ==
    /\ NoRunYet
    /\ forumPages \in ThreadConfigs
    /\ rows = [t \in 1..Len(forumPages) |-> NullRow]
    /\ NoPostYet
    /\ HelpersIdle("none")
    /\ NoTextYet

(***************************************************************************)
(* runScraper                                                              *)
(***************************************************************************)
closeBrowserLetsCloseThrow(b) ==
    [handle |-> IF b = "open" THEN "none" ELSE b, threw |-> b = "dead"]

\* immigration-boards.ts:118-127 and 709-711: cleanup() is closeBrowser(); the
\* handle it leaves and whether it threw
closeBrowser(b) ==
    [handle |-> "none", threw |-> FALSE]

\* the outer catch of runScraper (runner.ts:306-337): the adapter is released
\* (an error of cleanup is ignored), the row is marked failed and the error is
\* thrown again; b and n are the handle and the cleanup count it starts from
CatchRunError(b, n) ==
    /\ browser' = closeBrowser(b).handle
    /\ cleanups' = n + 1
    /\ sessionLive' = FALSE
    /\ runStatus' = IF dryRun THEN runStatus ELSE "failed"
    /\ statusWrites' = IF dryRun THEN statusWrites ELSE statusWrites + 1
    /\ wrote' = (wrote \/ ~dryRun)
    /\ currentScrapeRunId' = FALSE
    /\ ended' = "rejected"
    /\ pc' = "idle"

OuterCatch == CatchRunError(browser, cleanups)

\* index.ts:64-130 and runner.ts:94-107: the process starts and runScraper is
\* called; the shutdown flag is reset
StartRun ==
    /\ pc = "idle"
    /\ \E r \in ResumeOptions(forumPages), d \in BOOLEAN :
          /\ resume' = r
          /\ dryRun' = d
    /\ shutdownRequested' = FALSE
    /\ runStatus' = "none"
    /\ currentScrapeRunId' = FALSE
    /\ statusWrites' = 0
    /\ caught' = 0
    /\ ended' = "none"
    /\ browser' = "none"
    /\ released' = FALSE
    /\ cleanups' = 0
    /\ wrote' = FALSE
    /\ i' = 1
    /\ pc' = "create"
    /\ result' = NoResult
    /\ UNCHANGED <<startFromPage, forumPages, rows, totalPages, currentPage,
                   consecutiveFailures, sessionLive, loaded, stray, waitTime,
                   firstFetched, cursorAtStart, lastSuccess, outcome, replays,
                   failedInRow, prevDelivered, lastWrite, firstUnsaved,
                   failedBefore, posts, cases, lastIngest, inflight, now, text,
                   extracted, earlier, html, plainText, retry, popupState,
                   popupCall, urls, chromium>>

\* runner.ts:110-125: the ScrapeRun row is inserted with status running, unless
\* the run is dry
CreateScrapeRun ==
    /\ pc = "create"
    /\ runStatus' = IF dryRun THEN "none" ELSE "running"
    /\ wrote' = (wrote \/ ~dryRun)
    /\ pc' = "created"
    /\ UNCHANGED <<resume, dryRun, shutdownRequested, i, startFromPage, result,
                   currentScrapeRunId, statusWrites, caught, ended, released,
                   cleanups, forumPages, rows, totalPages, currentPage,
                   consecutiveFailures, sessionLive, browser, loaded, stray,
                   waitTime, firstFetched, cursorAtStart, lastSuccess, outcome,
                   replays, failedInRow, prevDelivered, lastWrite,
                   firstUnsaved, failedBefore, posts, cases, lastIngest,
                   inflight, now, text, extracted, earlier, html, plainText,
                   retry, popupState, popupCall, urls, chromium>>

\* runner.ts:127: the create call has returned and the id is kept for
\* gracefulShutdown
KeepScrapeRunId ==
    /\ pc = "created"
    /\ currentScrapeRunId' = ~dryRun
    /\ pc' = "threads"
    /\ UNCHANGED <<resume, dryRun, shutdownRequested, runStatus, i,
                   startFromPage, result, statusWrites, caught, ended,
                   released, cleanups, wrote, forumPages, rows, totalPages,
                   currentPage, consecutiveFailures, sessionLive, browser,
                   loaded, stray, waitTime, firstFetched, cursorAtStart,
                   lastSuccess, outcome, replays, failedInRow, prevDelivered,
                   lastWrite, firstUnsaved, failedBefore, posts, cases,
                   lastIngest, inflight, now, text, extracted, earlier, html,
                   plainText, retry, popupState, popupCall, urls, chromium>>

\* runner.ts:138-140: getThreads returns the threads
GetThreads ==
    /\ pc = "threads"
    /\ pc' = "thread"
    /\ UNCHANGED <<resume, dryRun, shutdownRequested, runStatus, i,
                   startFromPage, result, currentScrapeRunId, statusWrites,
                   caught, ended, released, cleanups, wrote, forumPages, rows,
                   totalPages, currentPage, consecutiveFailures, sessionLive,
                   browser, loaded, stray, waitTime, firstFetched,
                   cursorAtStart, lastSuccess, outcome, replays, failedInRow,
                   prevDelivered, lastWrite, firstUnsaved, failedBefore, posts,
                   cases, lastIngest, inflight, now, text, extracted, earlier,
                   html, plainText, retry, popupState, popupCall, urls,
                   chromium>>

\* runner.ts:138 and 306-337: getThreads throws
GetThreadsFails ==
    /\ pc = "threads"
    /\ OuterCatch
    /\ UNCHANGED <<resume, dryRun, shutdownRequested, i, startFromPage, result,
                   caught, released, forumPages, rows, totalPages, currentPage,
                   consecutiveFailures, loaded, stray, waitTime, firstFetched,
                   cursorAtStart, lastSuccess, outcome, replays, failedInRow,
                   prevDelivered, lastWrite, firstUnsaved, failedBefore, posts,
                   cases, lastIngest, inflight, now, text, extracted, earlier,
                   html, plainText, retry, popupState, popupCall, urls,
                   chromium>>

\* runner.ts:143-147 and 283-301: the thread loop ends; the run is closed
EndThreads ==
    /\ pc = "thread"
    /\ shouldStop \/ i > Len(forumPages)
    /\ pc' = "finish"
    /\ UNCHANGED <<resume, dryRun, shutdownRequested, runStatus, i,
                   startFromPage, result, currentScrapeRunId, statusWrites,
                   caught, ended, released, cleanups, wrote, forumPages, rows,
                   totalPages, currentPage, consecutiveFailures, sessionLive,
                   browser, loaded, stray, waitTime, firstFetched,
                   cursorAtStart, lastSuccess, outcome, replays, failedInRow,
                   prevDelivered, lastWrite, firstUnsaved, failedBefore, posts,
                   cases, lastIngest, inflight, now, text, extracted, earlier,
                   html, plainText, retry, popupState, popupCall, urls,
                   chromium>>

\* runner.ts:160-189: the thread upsert fails after its retries
UpsertFails ==
    /\ pc = "thread"
    /\ ~shouldStop /\ i <= Len(forumPages)
    /\ ~dryRun
    /\ CatchThread
    /\ result' = NoResult
    /\ UNCHANGED <<resume, dryRun, shutdownRequested, runStatus, startFromPage,
                   currentScrapeRunId, statusWrites, ended, released, cleanups,
                   wrote, forumPages, rows, totalPages, currentPage,
                   consecutiveFailures, sessionLive, browser, loaded, stray,
                   waitTime, firstFetched, cursorAtStart, lastSuccess, outcome,
                   replays, failedInRow, prevDelivered, lastWrite,
                   firstUnsaved, failedBefore, posts, cases, lastIngest,
                   inflight, now, text, extracted, earlier, html, plainText,
                   retry, popupState, popupCall, urls, chromium>>

\* runner.ts:160-204 and immigration-boards.ts:542-574: the thread is upserted,
\* the starting page is chosen and getPosts opens its session
BeginThread ==
    /\ pc = "thread"
    /\ ~shouldStop /\ i <= Len(forumPages)
    /\ wrote' = (wrote \/ ~dryRun)
    /\ startFromPage' = StartFromPage(resume, DbThreadCursor(dryRun, rows[i]))
    /\ cursorAtStart' = rows[i].lastScrapedPage
    /\ totalPages' = 1
    /\ currentPage' = startFromPage'
    /\ consecutiveFailures' = 0
    /\ sessionLive' = TRUE
    /\ browser' = "open"
    /\ loaded' = 0
    /\ firstFetched' = 0
    /\ lastSuccess' = 0
    /\ outcome' = "none"
    /\ replays' = 0
    /\ failedInRow' = 0
    /\ prevDelivered' = FALSE
    /\ lastWrite' = NoWrite
    /\ firstUnsaved' = 0
    /\ failedBefore' = FALSE
    /\ result' = NoResult
    /\ pc' = "nav"
    /\ UNCHANGED <<resume, dryRun, shutdownRequested, runStatus, i,
                   currentScrapeRunId, statusWrites, caught, ended, released,
                   cleanups, forumPages, rows, stray, waitTime, posts, cases,
                   lastIngest, inflight, now, text, extracted, earlier, html,
                   plainText, retry, popupState, popupCall, urls, chromium>>

\* immigration-boards.ts:72-103 and 553-555: the browser cannot be launched, or
\* the launched browser gives no context or page; getPosts throws before its
\* try block and the per-thread catch takes over
LaunchFails ==
    /\ pc = "thread"
    /\ ~shouldStop /\ i <= Len(forumPages)
    /\ browser' \in (IF browser = "open" THEN {"open"} ELSE {"none", "open"})
    /\ outcome' = "launch"
    /\ CatchThread
    /\ result' = NoResult
    /\ UNCHANGED <<resume, dryRun, shutdownRequested, runStatus, startFromPage,
                   currentScrapeRunId, statusWrites, ended, released, cleanups,
                   wrote, forumPages, rows, totalPages, currentPage,
                   consecutiveFailures, sessionLive, loaded, stray, waitTime,
                   firstFetched, cursorAtStart, lastSuccess, replays,
                   failedInRow, prevDelivered, lastWrite, firstUnsaved,
                   failedBefore, posts, cases, lastIngest, inflight, now, text,
                   extracted, earlier, html, plainText, retry, popupState,
                   popupCall, urls, chromium>>

(***************************************************************************)
(* getPosts                                                                *)
(***************************************************************************)
\* immigration-boards.ts:576-587: the starting page loads and the page count is read
InitialNavigation ==
    /\ pc = "nav"
    /\ firstFetched' = startFromPage
    /\ loaded' = startFromPage
    /\ totalPages' = forumPages[i]
    /\ IF startFromPage <= forumPages[i]
          THEN /\ pc' = "page"
               /\ result' = result
          ELSE /\ pc' = "returned"
               /\ result' = LoopResult(consecutiveFailures, currentPage, forumPages[i])
    /\ UNCHANGED <<resume, dryRun, shutdownRequested, runStatus, i,
                   startFromPage, currentScrapeRunId, statusWrites, caught,
                   ended, released, cleanups, wrote, forumPages, rows,
                   currentPage, consecutiveFailures, sessionLive, browser,
                   stray, waitTime, cursorAtStart, lastSuccess, outcome,
                   replays, failedInRow, prevDelivered, lastWrite,
                   firstUnsaved, failedBefore, posts, cases, lastIngest,
                   inflight, now, text, extracted, earlier, html, plainText,
                   retry, popupState, popupCall, urls, chromium>>

\* immigration-boards.ts:579-580 and 689-699: the starting page does not load,
\* the browser answering or not
InitialNavigationFails ==
    /\ pc = "nav"
    /\ \E hangs \in BOOLEAN :
          /\ browser' = IF hangs THEN "dead" ELSE browser
          /\ sessionLive' = ~hangs
    /\ firstFetched' = startFromPage
    /\ Unsaved
    /\ failedBefore' = (failedBefore \/ ~shutdownRequested)
    /\ result' = ErrorResult
    /\ pc' = "returned"
    /\ UNCHANGED <<resume, dryRun, shutdownRequested, runStatus, i,
                   startFromPage, currentScrapeRunId, statusWrites, caught,
                   ended, released, cleanups, wrote, forumPages, rows,
                   totalPages, currentPage, consecutiveFailures, loaded, stray,
                   waitTime, cursorAtStart, lastSuccess, outcome, replays,
                   failedInRow, prevDelivered, lastWrite, posts, cases,
                   lastIngest, inflight, now, text, extracted, earlier, html,
                   plainText, retry, popupState, popupCall, urls, chromium>>

\* the history of a failed page attempt
FailedAttempt(kind) ==
    /\ outcome' = kind
    /\ failedInRow' = Min(failedInRow + 1, MAX_CONSECUTIVE_FAILURES)
    /\ Unsaved
    /\ failedBefore' = (failedBefore \/ ~shutdownRequested)

\* immigration-boards.ts:591-599 and runner.ts:206-222: the page yields posts and
\* onPageData, called with no shutdown requested, starts to persist them
PageData ==
    /\ pc = "page"
    /\ sessionLive
    /\ stray' = FALSE
    /\ waitTime' = 0
    /\ LoadedAfterNavigation = currentPage
    /\ ~shouldStop
    /\ loaded' = currentPage
    /\ pc' = "ingest"
    /\ UNCHANGED <<resume, dryRun, shutdownRequested, runStatus, i,
                   startFromPage, result, currentScrapeRunId, statusWrites,
                   caught, ended, released, cleanups, wrote, forumPages, rows,
                   totalPages, currentPage, consecutiveFailures, sessionLive,
                   browser, firstFetched, cursorAtStart, lastSuccess, outcome,
                   replays, failedInRow, prevDelivered, lastWrite,
                   firstUnsaved, failedBefore, posts, cases, lastIngest,
                   inflight, now, text, extracted, earlier, html, plainText,
                   retry, popupState, popupCall, urls, chromium>>

\* runner.ts:211-226, 394, 468 and immigration-boards.ts:601-617: onPageData
\* returns.  A dry run saves nothing; a shutdown requested meanwhile can make
\* processPostsInBatches leave its loops with posts of the page unsaved.
PageDelivered ==
    /\ pc = "ingest"
    /\ wrote' = (wrote \/ ~dryRun)
    /\ consecutiveFailures' = 0
    /\ lastSuccess' = currentPage
    /\ \/ /\ ~dryRun
          /\ outcome' = "delivered"
          /\ UNCHANGED firstUnsaved
       \/ /\ dryRun \/ shouldStop
          /\ outcome' = IF dryRun THEN "delivered" ELSE "cut"
          /\ Unsaved
    /\ failedInRow' = 0
    /\ pc' = "check"
    /\ UNCHANGED <<resume, dryRun, shutdownRequested, runStatus, i,
                   startFromPage, result, currentScrapeRunId, statusWrites,
                   caught, ended, released, cleanups, forumPages, rows,
                   totalPages, currentPage, sessionLive, browser, loaded,
                   stray, waitTime, firstFetched, cursorAtStart, replays,
                   prevDelivered, lastWrite, failedBefore, posts, cases,
                   lastIngest, inflight, now, text, extracted, earlier, html,
                   plainText, retry, popupState, popupCall, urls, chromium>>

\* immigration-boards.ts:595-599, 622-625 and runner.ts:207-209, 221: the page
\* yields posts but onPageData throws (shutdown, or a write out of retries);
\* the per-page catch counts it as a page failure
PageDataThrows ==
    /\ pc = "page"
    /\ sessionLive
    /\ stray' = FALSE
    /\ LoadedAfterNavigation = currentPage
    /\ shouldStop \/ ~dryRun
    /\ loaded' = currentPage
    /\ consecutiveFailures' = consecutiveFailures + 1
    /\ FailedAttempt("datathrow")
    /\ pc' = "check"
    /\ UNCHANGED <<resume, dryRun, shutdownRequested, runStatus, i,
                   startFromPage, result, currentScrapeRunId, statusWrites,
                   caught, ended, released, cleanups, wrote, forumPages, rows,
                   totalPages, currentPage, sessionLive, browser, waitTime,
                   firstFetched, cursorAtStart, lastSuccess, replays,
                   prevDelivered, lastWrite, posts, cases, lastIngest,
                   inflight, now, text, extracted, earlier, html, plainText,
                   retry, popupState, popupCall, urls, chromium>>

\* immigration-boards.ts:618-621: no post extracted
PageEmpty ==
    /\ pc = "page"
    /\ sessionLive
    /\ stray' = FALSE
    /\ waitTime' = 0
    /\ loaded' = LoadedAfterNavigation
    /\ consecutiveFailures' = consecutiveFailures + 1
    /\ FailedAttempt("empty")
    /\ pc' = "check"
    /\ UNCHANGED <<resume, dryRun, shutdownRequested, runStatus, i,
                   startFromPage, result, currentScrapeRunId, statusWrites,
                   caught, ended, released, cleanups, wrote, forumPages, rows,
                   totalPages, currentPage, sessionLive, browser, firstFetched,
                   cursorAtStart, lastSuccess, replays, prevDelivered,
                   lastWrite, posts, cases, lastIngest, inflight, now, text,
                   extracted, earlier, html, plainText, retry, popupState,
                   popupCall, urls, chromium>>

\* immigration-boards.ts:498-504 and 622-625: navigation or extraction throws;
\* the message names no dead session
PageError ==
    /\ pc = "page"
    /\ sessionLive
    /\ stray' = FALSE
    /\ waitTime' = 0
    /\ loaded' = LoadedAfterNavigation
    /\ consecutiveFailures' = consecutiveFailures + 1
    /\ FailedAttempt("error")
    /\ pc' = "check"
    /\ UNCHANGED <<resume, dryRun, shutdownRequested, runStatus, i,
                   startFromPage, result, currentScrapeRunId, statusWrites,
                   caught, ended, released, cleanups, wrote, forumPages, rows,
                   totalPages, currentPage, sessionLive, browser, firstFetched,
                   cursorAtStart, lastSuccess, replays, prevDelivered,
                   lastWrite, posts, cases, lastIngest, inflight, now, text,
                   extracted, earlier, html, plainText, retry, popupState,
                   popupCall, urls, chromium>>

\* immigration-boards.ts:502-509 and 622-625: the 45 s budget runs out first:
\* Promise.race rejects while the navigation and extraction it raced against
\* are left running
PageTimeout ==
    /\ pc = "page"
    /\ sessionLive
    /\ loaded' = LoadedAfterNavigation
    /\ stray' = TRUE
    /\ waitTime' = 0
    /\ consecutiveFailures' = consecutiveFailures + 1
    /\ FailedAttempt("error")
    /\ pc' = "check"
    /\ UNCHANGED <<resume, dryRun, shutdownRequested, runStatus, i,
                   startFromPage, result, currentScrapeRunId, statusWrites,
                   caught, ended, released, cleanups, wrote, forumPages, rows,
                   totalPages, currentPage, sessionLive, browser, firstFetched,
                   cursorAtStart, lastSuccess, replays, prevDelivered,
                   lastWrite, posts, cases, lastIngest, inflight, now, text,
                   extracted, earlier, html, plainText, retry, popupState,
                   popupCall, urls, chromium>>

\* immigration-boards.ts:498-504: the abandoned navigation and extraction come
\* to their end
StrayEnds ==
    /\ stray
    /\ stray' = FALSE
    /\ UNCHANGED <<pc, resume, dryRun, shutdownRequested, runStatus, i,
                   startFromPage, result, currentScrapeRunId, statusWrites,
                   caught, ended, released, cleanups, wrote, forumPages, rows,
                   totalPages, currentPage, consecutiveFailures, sessionLive,
                   browser, loaded, waitTime, firstFetched, cursorAtStart,
                   lastSuccess, outcome, replays, failedInRow, prevDelivered,
                   lastWrite, firstUnsaved, failedBefore, posts, cases,
                   lastIngest, inflight, now, text, extracted, earlier, html,
                   plainText, retry, popupState, popupCall, urls, chromium>>

\* immigration-boards.ts:622-629: the attempt fails with a message that names
\* a dead session ('Target closed', 'browser has been closed', 'Protocol
\* error'); whatever still ran against the page has died with it
PageCrash ==
    /\ pc = "page"
    /\ sessionLive' = FALSE
    /\ stray' = FALSE
    /\ waitTime' = 0
    /\ consecutiveFailures' = consecutiveFailures + 1
    /\ FailedAttempt("crash")
    /\ pc' = "recover"
    /\ UNCHANGED <<resume, dryRun, shutdownRequested, runStatus, i,
                   startFromPage, result, currentScrapeRunId, statusWrites,
                   caught, ended, released, cleanups, wrote, forumPages, rows,
                   totalPages, currentPage, browser, loaded, firstFetched,
                   cursorAtStart, lastSuccess, replays, prevDelivered,
                   lastWrite, posts, cases, lastIngest, inflight, now, text,
                   extracted, earlier, html, plainText, retry, popupState,
                   popupCall, urls, chromium>>

\* immigration-boards.ts:630-648: the session is relaunched, the counter is
\* reset and the same page is tried again (continue skips the abort check,
\* onProgress and the jitter)
PageCrashRecovered ==
    /\ pc = "recover"
    /\ sessionLive' = TRUE
    /\ browser' = "open"
    /\ loaded' = 0
    /\ consecutiveFailures' = 0
    /\ currentPage' = (currentPage - 1) + 1
    /\ replays' = Min(replays + 1, MaxReplays)
    /\ pc' = "page"
    /\ UNCHANGED <<resume, dryRun, shutdownRequested, runStatus, i,
                   startFromPage, result, currentScrapeRunId, statusWrites,
                   caught, ended, released, cleanups, wrote, forumPages, rows,
                   totalPages, stray, waitTime, firstFetched, cursorAtStart,
                   lastSuccess, outcome, failedInRow, prevDelivered, lastWrite,
                   firstUnsaved, failedBefore, posts, cases, lastIngest,
                   inflight, now, text, extracted, earlier, html, plainText,
                   retry, popupState, popupCall, urls, chromium>>

\* immigration-boards.ts:630-652: the relaunch fails too
PageCrashNotRecovered ==
    /\ pc = "recover"
    /\ browser' = "none"
    /\ pc' = "check"
    /\ UNCHANGED <<resume, dryRun, shutdownRequested, runStatus, i,
                   startFromPage, result, currentScrapeRunId, statusWrites,
                   caught, ended, released, cleanups, wrote, forumPages, rows,
                   totalPages, currentPage, consecutiveFailures, sessionLive,
                   loaded, stray, waitTime, firstFetched, cursorAtStart,
                   lastSuccess, outcome, replays, failedInRow, prevDelivered,
                   lastWrite, firstUnsaved, failedBefore, posts, cases,
                   lastIngest, inflight, now, text, extracted, earlier, html,
                   plainText, retry, popupState, popupCall, urls, chromium>>

\* immigration-boards.ts:655-659
AbortCheck ==
    /\ pc = "check"
    /\ IF TooManyFailures(consecutiveFailures)
          THEN /\ pc' = "returned"
               /\ result' = LoopResult(consecutiveFailures, currentPage, totalPages)
          ELSE /\ pc' = "progress"
               /\ result' = result
    /\ UNCHANGED <<resume, dryRun, shutdownRequested, runStatus, i,
                   startFromPage, currentScrapeRunId, statusWrites, caught,
                   ended, released, cleanups, wrote, forumPages, rows,
                   totalPages, currentPage, consecutiveFailures, sessionLive,
                   browser, loaded, stray, waitTime, firstFetched,
                   cursorAtStart, lastSuccess, outcome, replays, failedInRow,
                   prevDelivered, lastWrite, firstUnsaved, failedBefore, posts,
                   cases, lastIngest, inflight, now, text, extracted, earlier,
                   html, plainText, retry, popupState, popupCall, urls,
                   chromium>>

AdvanceStays ==
    /\ waitTime' = waitTime
    /\ currentPage' = currentPage
    /\ replays' = 0
    /\ prevDelivered' = prevDelivered
    /\ outcome' = "none"
    /\ pc' = "page"
    /\ result' = result

\* helpers.ts:18-20, Math.random() in hundredths
getJitter(random) ==
    RATE_LIMIT_MIN + (random * (RATE_LIMIT_MAX - RATE_LIMIT_MIN)) \div 100

\* immigration-boards.ts:661-671 and 587: after onProgress the loop sleeps the
\* delay between two pages, unless the page was the last, and moves on
Advance ==
    /\ \E random \in {0, 99} :
           waitTime' = IF currentPage < totalPages THEN getJitter(random) ELSE 0
    /\ currentPage' = currentPage + 1
    /\ replays' = 0
    /\ prevDelivered' = (lastSuccess = currentPage)
    /\ outcome' = "none"
    /\ IF currentPage + 1 <= totalPages
          THEN /\ pc' = "page"
               /\ result' = result
          ELSE /\ pc' = "returned"
               /\ result' = LoopResult(consecutiveFailures, currentPage + 1, totalPages)

\* runner.ts:230-247: onProgress without a checkpoint, or with one that is written
OnProgress ==
    /\ pc = "progress"
    /\ IF CheckpointDue(dryRun, currentPage)
          THEN WriteCursor(currentPage, totalPages)
          ELSE UNCHANGED <<rows, lastWrite, wrote>>
    /\ IF shouldStop
          THEN /\ result' = ErrorResult
               /\ pc' = "returned"
               /\ UNCHANGED <<currentPage, replays, prevDelivered, outcome,
                              waitTime>>
          ELSE Advance
    /\ UNCHANGED <<resume, dryRun, shutdownRequested, runStatus, i,
                   startFromPage, currentScrapeRunId, statusWrites, caught,
                   ended, released, cleanups, forumPages, totalPages,
                   consecutiveFailures, sessionLive, browser, loaded, stray,
                   firstFetched, cursorAtStart, lastSuccess, failedInRow,
                   firstUnsaved, failedBefore, posts, cases, lastIngest,
                   inflight, now, text, extracted, earlier, html, plainText,
                   retry, popupState, popupCall, urls, chromium>>

\* runner.ts:232-241: the checkpoint write fails twice; onProgress throws into the
\* outer catch of getPosts
CheckpointFails ==
    /\ pc = "progress"
    /\ CheckpointDue(dryRun, currentPage)
    /\ result' = ErrorResult
    /\ pc' = "returned"
    /\ UNCHANGED <<resume, dryRun, shutdownRequested, runStatus, i,
                   startFromPage, currentScrapeRunId, statusWrites, caught,
                   ended, released, cleanups, wrote, forumPages, rows,
                   totalPages, currentPage, consecutiveFailures, sessionLive,
                   browser, loaded, stray, waitTime, firstFetched,
                   cursorAtStart, lastSuccess, outcome, replays, failedInRow,
                   prevDelivered, lastWrite, firstUnsaved, failedBefore, posts,
                   cases, lastIngest, inflight, now, text, extracted, earlier,
                   html, plainText, retry, popupState, popupCall, urls,
                   chromium>>

(***************************************************************************)
(* runScraper, after getPosts                                              *)
(***************************************************************************)
\* runner.ts:258-273: the final progress update of the thread
FinalProgress ==
    /\ pc = "returned"
    /\ IF ~dryRun /\ ~shouldStop
          THEN WriteCursor(result.lastScrapedPage, result.totalPages)
          ELSE UNCHANGED <<rows, lastWrite, wrote>>
    /\ pc' = "thread"
    /\ i' = i + 1
    /\ ForgetCrawl
    /\ UNCHANGED <<resume, dryRun, shutdownRequested, runStatus, result,
                   currentScrapeRunId, statusWrites, caught, ended, released,
                   cleanups, forumPages, sessionLive, browser, posts, cases,
                   lastIngest, inflight, now, text, extracted, earlier, html,
                   plainText, retry, popupState, popupCall, urls, chromium>>

\* runner.ts:260-270 and 274-280: the final progress update fails twice
FinalProgressFails ==
    /\ pc = "returned"
    /\ ~dryRun /\ ~shouldStop
    /\ CatchThread
    /\ ForgetCrawl
    /\ UNCHANGED <<resume, dryRun, shutdownRequested, runStatus, result,
                   currentScrapeRunId, statusWrites, ended, released, cleanups,
                   wrote, forumPages, rows, sessionLive, browser, lastWrite,
                   posts, cases, lastIngest, inflight, now, text, extracted,
                   earlier, html, plainText, retry, popupState, popupCall,
                   urls, chromium>>

\* runner.ts:283-301: the adapter is released and the ScrapeRun row is closed
FinishRun ==
    /\ pc = "finish"
    /\ IF closeBrowser(browser).threw
          THEN CatchRunError(closeBrowser(browser).handle, cleanups + 1)
          ELSE /\ browser' = closeBrowser(browser).handle
               /\ cleanups' = cleanups + 1
               /\ runStatus' = IF dryRun THEN "none"
                               ELSE IF shouldStop THEN "failed" ELSE "completed"
               /\ statusWrites' = IF dryRun THEN statusWrites
                                            ELSE statusWrites + 1
               /\ wrote' = (wrote \/ ~dryRun)
               /\ currentScrapeRunId' = FALSE
               /\ ended' = "resolved"
               /\ sessionLive' = FALSE
               /\ pc' = "idle"
    /\ i' = 1
    /\ result' = NoResult
    /\ lastWrite' = NoWrite
    /\ ForgetCrawl
    /\ UNCHANGED <<resume, dryRun, shutdownRequested, caught, released,
                   forumPages, rows, posts, cases, lastIngest, inflight, now,
                   text, extracted, earlier, html, plainText, retry,
                   popupState, popupCall, urls, chromium>>

\* index.ts:28-32 and runner.ts:59-76: a shutdown signal arrives during the run;
\* the flag is set and the row whose id is kept is marked failed
GracefulShutdown ==
    /\ pc # "idle"
    /\ ~shutdownRequested
    /\ shutdownRequested' = TRUE
    /\ runStatus' = IF currentScrapeRunId THEN "failed" ELSE runStatus
    /\ statusWrites' = IF currentScrapeRunId THEN statusWrites + 1
                                             ELSE statusWrites
    /\ wrote' = (wrote \/ currentScrapeRunId)
    /\ UNCHANGED <<pc, resume, dryRun, i, startFromPage, result,
                   currentScrapeRunId, caught, ended, released, cleanups,
                   forumPages, rows, totalPages, currentPage,
                   consecutiveFailures, sessionLive, browser, loaded, stray,
                   waitTime, firstFetched, cursorAtStart, lastSuccess, outcome,
                   replays, failedInRow, prevDelivered, lastWrite,
                   firstUnsaved, failedBefore, posts, cases, lastIngest,
                   inflight, now, text, extracted, earlier, html, plainText,
                   retry, popupState, popupCall, urls, chromium>>

\* runner.ts:78-85: gracefulShutdown releases the adapter; an error of cleanup
\* is caught and logged
ShutdownCleanup ==
    /\ pc # "idle"
    /\ shutdownRequested
    /\ ~released
    /\ browser' = closeBrowser(browser).handle
    /\ cleanups' = cleanups + 1
    /\ sessionLive' = FALSE
    /\ stray' = FALSE
    /\ released' = TRUE
    /\ UNCHANGED <<pc, resume, dryRun, shutdownRequested, runStatus, i,
                   startFromPage, result, currentScrapeRunId, statusWrites,
                   caught, ended, wrote, forumPages, rows, totalPages,
                   currentPage, consecutiveFailures, loaded, waitTime,
                   firstFetched, cursorAtStart, lastSuccess, outcome, replays,
                   failedInRow, prevDelivered, lastWrite, firstUnsaved,
                   failedBefore, posts, cases, lastIngest, inflight, now, text,
                   extracted, earlier, html, plainText, retry, popupState,
                   popupCall, urls, chromium>>

\* index.ts:36-38 and runner.ts:87: gracefulShutdown has released the adapter
\* and the database connection, and the process exits wherever runScraper is
ProcessExit ==
    /\ pc # "idle"
    /\ shutdownRequested
    /\ released
    /\ browser' = "none"
    /\ pc' = "idle"
    /\ ended' = "exit"
    /\ currentScrapeRunId' = FALSE
    /\ sessionLive' = FALSE
    /\ i' = 1
    /\ result' = NoResult
    /\ lastWrite' = NoWrite
    /\ ForgetCrawl
    /\ UNCHANGED <<resume, dryRun, shutdownRequested, runStatus, statusWrites,
                   caught, released, cleanups, wrote, forumPages, rows, posts,
                   cases, lastIngest, inflight, now, text, extracted, earlier,
                   html, plainText, retry, popupState, popupCall, urls,
                   chromium>>

Next ==
    \/ StartRun
    \/ CreateScrapeRun
    \/ KeepScrapeRunId
    \/ GetThreads
    \/ GetThreadsFails
    \/ EndThreads
    \/ UpsertFails
    \/ BeginThread
    \/ LaunchFails
    \/ InitialNavigation
    \/ InitialNavigationFails
    \/ PageData
    \/ PageDelivered
    \/ PageDataThrows
    \/ PageEmpty
    \/ PageError
    \/ PageCrash
    \/ PageCrashRecovered
    \/ PageCrashNotRecovered
    \/ AbortCheck
    \/ OnProgress
    \/ CheckpointFails
    \/ FinalProgress
    \/ FinishRun
    \/ FinalProgressFails
    \/ GracefulShutdown
    \/ ShutdownCleanup
    \/ ProcessExit

Spec == Init /\ [][Next]_vars

(***************************************************************************)
(* processPostsInBatches on its own: pages of posts arriving for a thread  *)
(***************************************************************************)
scraperVars == <<runVars, lifeVars, forumPages, rows, crawlVars, histVars,
                 helperVars>>

\* runner.ts:344-536: the call runs to its end
ProcessPostsInBatches ==
    /\ \E page \in Pages :
           Ingest(page, Len(Transactions(posts, page)), TRUE)
    /\ UNCHANGED <<scraperVars, extractVars, cleanVars, inflight>>

\* runner.ts:394, 468 and retryWithBackoff giving up: the call ends after n of
\* its transactions, by the shutdown flag or by an error thrown
ProcessPostsInterrupted ==
    /\ \E page \in Pages :
           \E n \in 0..(Len(Transactions(posts, page)) - 1) :
               Ingest(page, n, FALSE)
    /\ UNCHANGED <<scraperVars, extractVars, cleanVars, inflight>>

InitIngest ==
    /\ NoRunYet
    /\ forumPages = <<MaxPages>>
    /\ rows = [t \in 1..Len(forumPages) |-> NullRow]
    /\ NoPostYet
    /\ HelpersIdle("none")
    /\ NoTextYet

NextIngest ==
    \/ ProcessPostsInBatches
    \/ ProcessPostsInterrupted

SpecIngest == InitIngest /\ [][NextIngest]_vars

(***************************************************************************)
(* Two runs ingesting pages of the same thread at the same time: each call *)
(* of processPostsInBatches reads the existing posts once and then makes   *)
(* its transactions one by one, each retried by retryWithBackoff.          *)
(***************************************************************************)
NoWrites(db) == [posts |-> db.posts, cases |-> db.cases, postWrites |-> 0,
                 caseWrites |-> 0, extractCalls |-> 0]

\* runner.ts:352-391: the call reads the existing posts and classifies the page
BeginIngest(r) ==
    /\ inflight[r].txs = <<>>
    /\ \E page \in RacePages :
          /\ Transactions(posts, page) # <<>>
          /\ inflight' = [inflight EXCEPT
                             ![r] = [txs |-> Transactions(posts, page),
                                     attempts |-> 0]]
    /\ UNCHANGED <<scraperVars, extractVars, cleanVars, posts, cases, lastIngest>>

\* runner.ts:399-452 and 474-522: the next transaction of the call commits
CommitTransaction(r) ==
    /\ inflight[r].txs # <<>>
    /\ LET db == Commit(NoWrites([posts |-> posts, cases |-> cases]),
                        inflight[r].txs, 1)
       IN  /\ posts' = db.posts
           /\ cases' = db.cases
    /\ inflight' = [inflight EXCEPT ![r] = [txs |-> Tail(inflight[r].txs),
                                            attempts |-> 0]]
    /\ UNCHANGED <<scraperVars, extractVars, cleanVars, lastIngest>>

\* part_007:51-70: an attempt of the transaction fails and is rolled back;
\* retryWithBackoff waits and tries again
TransactionRetried(r) ==
    /\ inflight[r].txs # <<>>
    /\ inflight[r].attempts + 1 < DB_MAX_ATTEMPTS
    /\ inflight' = [inflight EXCEPT ![r].attempts = @ + 1]
    /\ UNCHANGED <<scraperVars, extractVars, cleanVars, posts, cases, lastIngest>>

\* part_007:58-60 and runner.ts:394, 468: the last attempt fails too and the
\* call throws, or the shutdown flag ends the loops between two transactions
IngestAbandoned(r) ==
    /\ inflight[r].txs # <<>>
    /\ inflight[r].attempts \in {0, DB_MAX_ATTEMPTS - 1}
    /\ inflight' = [inflight EXCEPT ![r] = Idle]
    /\ UNCHANGED <<scraperVars, extractVars, cleanVars, posts, cases, lastIngest>>

NextRace ==
    \E r \in Runs :
        \/ BeginIngest(r)
        \/ CommitTransaction(r)
        \/ TransactionRetried(r)
        \/ IngestAbandoned(r)

SpecRace == InitIngest /\ [][NextRace]_vars

(***************************************************************************)
(* The crawl with the per-page timeout: runs that no signal interrupts, in  *)
(* which a page attempt can lose the race against its 45 s budget.  The    *)
(* event loop always runs the continuation that is ready, so some step of  *)
(* a run is eventually taken.                                              *)
(***************************************************************************)
InitCrawl ==
    /\ NoRunYet
    /\ forumPages = <<MaxPages>>
    /\ rows = [t \in 1..Len(forumPages) |-> NullRow]
    /\ NoPostYet
    /\ HelpersIdle("none")
    /\ NoTextYet

NextCrawl ==
    \/ StartRun
    \/ CreateScrapeRun
    \/ KeepScrapeRunId
    \/ GetThreads
    \/ GetThreadsFails
    \/ EndThreads
    \/ UpsertFails
    \/ BeginThread
    \/ LaunchFails
    \/ InitialNavigation
    \/ InitialNavigationFails
    \/ PageData
    \/ PageDelivered
    \/ PageDataThrows
    \/ PageEmpty
    \/ PageError
    \/ PageTimeout
    \/ StrayEnds
    \/ PageCrash
    \/ PageCrashRecovered
    \/ PageCrashNotRecovered
    \/ AbortCheck
    \/ OnProgress
    \/ CheckpointFails
    \/ FinalProgress
    \/ FinishRun
    \/ FinalProgressFails

SpecCrawl == InitCrawl /\ [][NextCrawl]_vars /\ WF_vars(NextCrawl)

(***************************************************************************)
(* extractCaseData on its own: one post, evaluated any number of times     *)
(* while the worker's clock runs                                           *)
(***************************************************************************)
InitExtract ==
    /\ NoRunYet
    /\ forumPages = <<MaxPages>>
    /\ rows = [t \in 1..Len(forumPages) |-> NullRow]
    /\ NoPostYet
    /\ HelpersIdle("none")
    /\ now \in Clock
    /\ text \in Contents
    /\ extracted = <<>>
    /\ earlier = <<>>
    /\ html = <<>>
    /\ plainText = NotCleaned

\* runner.ts:213, 428 and 487: a call of extractCaseData(post.content)
ExtractCase ==
    /\ extracted' = <<extractCaseData(text)>>
    /\ earlier' = extracted
    /\ UNCHANGED <<scraperVars, ingestVars, inflight, cleanVars, now, text>>

\* extractor.ts:380: a day passes between two readings of the clock
Tick ==
    /\ now + 1 \in Clock
    /\ now' = now + 1
    /\ UNCHANGED <<scraperVars, ingestVars, inflight, cleanVars, text, extracted,
                   earlier>>

NextExtract ==
    \/ ExtractCase
    \/ Tick

SpecExtract == InitExtract /\ [][NextExtract]_vars

(***************************************************************************)
(* stripHtmlWithQuotes on its own: the markup of one post is cleaned       *)
(***************************************************************************)
InitClean ==
    /\ NoRunYet
    /\ forumPages = <<MaxPages>>
    /\ rows = [t \in 1..Len(forumPages) |-> NullRow]
    /\ NoPostYet
    /\ HelpersIdle("none")
    /\ now = MIN_DAY + WAIT_LIMIT - FUTURE_DAYS - 1
    /\ text = Body("none", NoDate, NoDate, "none")
    /\ extracted = <<>>
    /\ earlier = <<>>
    /\ html \in Htmls
    /\ plainText = NotCleaned

\* immigration-boards.ts:457
CleanPost ==
    /\ plainText = NotCleaned
    /\ plainText' = stripHtmlWithQuotes(html)
    /\ UNCHANGED <<scraperVars, ingestVars, inflight, extractVars, html>>

NextClean == CleanPost

SpecClean == InitClean /\ [][NextClean]_vars

(***************************************************************************)
(* The helpers on their own: the scraper is idle while one of them runs    *)
(***************************************************************************)
ScraperIdle ==
    /\ NoRunYet
    /\ forumPages = <<MaxPages>>
    /\ rows = [t \in 1..Len(forumPages) |-> NullRow]
    /\ NoPostYet
    /\ NoTextYet

notHelperVars == <<runVars, lifeVars, forumPages, rows, crawlVars, histVars,
                   ingestVars, extractVars, cleanVars, inflight>>

(***************************************************************************)
(* The adapter's browser handle and the browsers it launched               *)
(* (immigration-boards.ts:47, 72-103, 118-127, 628-637, 709-711)           *)
(***************************************************************************)
\* immigration-boards.ts:97-100: browser.on('disconnected', () => { browser = null })
disconnected(handle, b) == 0

(***************************************************************************)
(* handlePopups and the resets of popupState                               *)
(* (immigration-boards.ts:51-56, 133-250, 547-551, 639-643)                *)
(***************************************************************************)
PopupFlags == {"consent", "notifications", "login", "doNotShow"}

\* immigration-boards.ts:51-56, 548-551, 640-643
AllUnhandled == [f \in PopupFlags |-> FALSE]

\* a relaunch that leaves the flags as they are
KeepFlags(flags) == flags

\* immigration-boards.ts:548-551, 640-643
ResetFlags(flags) == AllUnhandled

\* immigration-boards.ts:135
AllHandled(flags) == \A f \in PopupFlags : flags[f]

InitPopups ==
    /\ ScraperIdle
    /\ HelpersIdle("popups")
    /\ popupState = AllUnhandled
    /\ popupCall = [step |-> "idle", checked |-> FALSE, sessions |-> 0,
                    origin |-> "none"]

\* immigration-boards.ts:547-555: getPosts starts a crawl in a new context
NewCrawl ==
    /\ popupCall.step = "idle"
    /\ popupCall.sessions < MaxSessions
    /\ popupState' = ResetFlags(popupState)
    /\ popupCall' = [popupCall EXCEPT !.sessions = @ + 1, !.origin = "crawl",
                                      !.checked = FALSE]
    /\ UNCHANGED <<notHelperVars, retry, urls, chromium>>

\* immigration-boards.ts:631-643: the recovery branch has relaunched the session
Relaunched ==
    /\ popupCall.step = "idle"
    /\ popupCall.sessions \in 1..(MaxSessions - 1)
    /\ popupState' = ResetFlags(popupState)
    /\ popupCall' = [popupCall EXCEPT !.sessions = @ + 1, !.origin = "relaunch",
                                      !.checked = FALSE]
    /\ UNCHANGED <<notHelperVars, retry, urls, chromium>>

\* immigration-boards.ts:344, 133-137: navigateToPage calls handlePopups
HandlePopupsCalled ==
    /\ popupCall.step = "idle"
    /\ popupCall.sessions > 0
    /\ popupCall' = [popupCall EXCEPT
                        !.step = IF AllHandled(popupState) THEN "idle"
                                                           ELSE "consent",
                        !.checked = FALSE]
    /\ UNCHANGED <<notHelperVars, retry, popupState, urls, chromium>>

\* immigration-boards.ts:148-246: the next of the four blocks of handlePopups
\* (consent, notifications, login, doNotShow): skipped when its flag is set;
\* when not, the element is looked for and the flag is set whether it was
\* visible and clicked, not visible, or the lookup threw
PopupBlock ==
    /\ popupCall.step \in PopupFlags
    /\ LET flag == popupCall.step
           next == CASE flag = "consent" -> "notifications"
                     [] flag = "notifications" -> "login"
                     [] flag = "login" -> "doNotShow"
                     [] OTHER -> "idle"
       IN  IF popupState[flag]
              THEN /\ popupState' = popupState
                   /\ popupCall' = [popupCall EXCEPT !.step = next]
              ELSE /\ popupState' = [popupState EXCEPT ![flag] = TRUE]
                   /\ popupCall' = [popupCall EXCEPT !.step = next,
                                                     !.checked = TRUE]
    /\ UNCHANGED <<notHelperVars, retry, urls, chromium>>

\* immigration-boards.ts:247-249: an error outside the blocks ends the call
PopupsThrow ==
    /\ popupCall.step # "idle"
    /\ popupCall' = [popupCall EXCEPT !.step = "idle"]
    /\ UNCHANGED <<notHelperVars, retry, popupState, urls, chromium>>

NextPopups ==
    \/ NewCrawl
    \/ Relaunched
    \/ HandlePopupsCalled
    \/ PopupBlock
    \/ PopupsThrow

SpecPopups == InitPopups /\ [][NextPopups]_vars

(***************************************************************************)
(* stripSessionId and buildPageUrl (immigration-boards.ts:23-29, 308-312)  *)
(*                                                                         *)
(* A URL is the sequence of its pieces: the path, the separators "?" and   *)
(* "&", and the parameters; "sid" stands for sid=<hex digits> and "start"  *)
(* for start=<offset>.                                                     *)
(***************************************************************************)
Separators == {"?", "&"}

Params == {"sid", "t", "f"}

\* the thread URLs path?p1&p2&... of one to MaxParams different parameters
ThreadUrls ==
    LET lists == { ps \in UNION { [1..n -> Params] : n \in 1..MaxParams } :
                     \A j, k \in 1..Len(ps) : j # k => ps[j] # ps[k] }
        UrlOf(ps) == [k \in 1..(2 * Len(ps) + 1) |->
                        IF k = 1 THEN "path"
                        ELSE IF k = 2 THEN "?"
                        ELSE IF k % 2 = 0 THEN "&"
                        ELSE ps[k \div 2]]
    IN  { UrlOf(ps) : ps \in lists }

RECURSIVE RemoveSids(_)
\* immigration-boards.ts:25: replace(/[?&]sid=[a-f0-9]+/gi, '')
RemoveSids(u) ==
    IF Len(u) < 2 THEN u
    ELSE IF u[1] \in Separators /\ u[2] = "sid"
         THEN RemoveSids(SubSeq(u, 3, Len(u)))
         ELSE <<u[1]>> \o RemoveSids(Tail(u))

RECURSIVE FixQuestionAmp(_)
\* immigration-boards.ts:26: replace(/\?&/, '?'), the first match only
FixQuestionAmp(u) ==
    IF Len(u) < 2 THEN u
    ELSE IF u[1] = "?" /\ u[2] = "&"
         THEN <<"?">> \o SubSeq(u, 3, Len(u))
         ELSE <<u[1]>> \o FixQuestionAmp(Tail(u))

RECURSIVE CollapseAmps(_)
\* immigration-boards.ts:27: replace(/&&+/g, '&')
CollapseAmps(u) ==
    IF Len(u) < 2 THEN u
    ELSE IF u[1] = "&" /\ u[2] = "&"
         THEN CollapseAmps(Tail(u))
         ELSE <<u[1]>> \o CollapseAmps(Tail(u))

\* immigration-boards.ts:28: replace(/[?&]$/, '')
TrimSeparator(u) ==
    IF u # <<>> /\ u[Len(u)] \in Separators THEN SubSeq(u, 1, Len(u) - 1) ELSE u

\* immigration-boards.ts:23-29
stripSessionId(u) ==
    TrimSeparator(CollapseAmps(FixQuestionAmp(RemoveSids(u))))

\* immigration-boards.ts:308-312
buildPageUrl(u, pageNum, postsPerPage) ==
    LET cleanUrl == stripSessionId(u)
        start == (pageNum - 1) * postsPerPage
    IN  [url |-> IF start = 0 THEN cleanUrl ELSE cleanUrl \o <<"&", "start">>,
         start |-> start]

\* the path, and behind it nothing or "?" and parameters separated by "&"
WellFormed(u) ==
    /\ Len(u) >= 1
    /\ Len(u) % 2 = 1
    /\ u[1] = "path"
    /\ \A k \in 2..Len(u) :
          IF k = 2 THEN u[k] = "?"
          ELSE IF k % 2 = 0 THEN u[k] = "&"
          ELSE u[k] \notin Separators \cup {"path"}

InitUrl ==
    /\ ScraperIdle
    /\ HelpersIdle("urls")
    /\ \E u \in ThreadUrls :
          urls = [threadUrl |-> u, cleanUrl |-> <<>>, pageUrl |-> <<>>,
                  start |-> 0]

\* immigration-boards.ts:578: getPosts strips the URL of the thread
StripThreadUrl ==
    /\ urls.cleanUrl = <<>>
    /\ urls' = [urls EXCEPT !.cleanUrl = stripSessionId(urls.threadUrl)]
    /\ UNCHANGED <<notHelperVars, retry, popupState, popupCall, chromium>>

\* immigration-boards.ts:319-320: navigateToPage builds the URL of a page
BuildPageUrl ==
    /\ \E pageNum \in 1..MaxUrlPage :
         LET built == buildPageUrl(urls.threadUrl, pageNum, POSTS_PER_PAGE)
         IN  urls' = [urls EXCEPT !.pageUrl = built.url, !.start = built.start]
    /\ UNCHANGED <<notHelperVars, retry, popupState, popupCall, chromium>>

NextUrl ==
    \/ StripThreadUrl
    \/ BuildPageUrl

SpecUrl == InitUrl /\ [][NextUrl]_vars

InitBrowsers ==
    /\ ScraperIdle
    /\ HelpersIdle("chromium")
    /\ chromium = [handle |-> 0, open |-> {}, connected |-> {}, launched |-> 0,
                   cleaned |-> FALSE]

\* immigration-boards.ts:72-103: initBrowser returns the connected browser, or
\* closes a stale one and launches a new one
InitBrowserCall ==
    /\ chromium.handle = 0 \/ chromium.handle \notin chromium.connected
    /\ chromium.launched < MaxBrowsers
    /\ LET b == chromium.launched + 1
       IN  chromium' = [handle |-> b,
                        open |-> (chromium.open \ {chromium.handle}) \cup {b},
                        connected |-> chromium.connected \cup {b},
                        launched |-> b,
                        cleaned |-> FALSE]
    /\ UNCHANGED <<notHelperVars, retry, popupState, popupCall, urls>>

\* a browser process dies or stops answering; its connection is still to drop
BrowserDies ==
    /\ \E b \in chromium.open \cap chromium.connected :
          chromium' = [chromium EXCEPT !.open = @ \ {b}, !.cleaned = FALSE]
    /\ UNCHANGED <<notHelperVars, retry, popupState, popupCall, urls>>

\* immigration-boards.ts:97-100: the connection of a dead browser drops and its
\* 'disconnected' handler runs
Disconnected ==
    /\ \E b \in chromium.connected \ chromium.open :
          chromium' = [chromium EXCEPT
                          !.connected = @ \ {b},
                          !.handle = disconnected(chromium.handle, b),
                          !.cleaned = FALSE]
    /\ UNCHANGED <<notHelperVars, retry, popupState, popupCall, urls>>

\* immigration-boards.ts:118-127: closeBrowser closes the browser of the handle,
\* if there is one: close() ends the process, and the 'disconnected' event of
\* a browser that answers is delivered before close() resolves
CloseHandle(c) ==
    IF c.handle = 0 THEN c
    ELSE [c EXCEPT !.handle = 0,
                   !.connected = IF c.handle \in c.open THEN @ \ {c.handle}
                                                        ELSE @,
                   !.open = @ \ {c.handle}]

\* immigration-boards.ts:631-632: the recovery branch closes the browser
CloseBrowser ==
    /\ chromium.handle # 0
    /\ chromium' = [CloseHandle(chromium) EXCEPT !.cleaned = FALSE]
    /\ UNCHANGED <<notHelperVars, retry, popupState, popupCall, urls>>

\* immigration-boards.ts:709-711: cleanup()
Cleanup ==
    /\ ~chromium.cleaned
    /\ chromium' = [CloseHandle(chromium) EXCEPT !.cleaned = TRUE]
    /\ UNCHANGED <<notHelperVars, retry, popupState, popupCall, urls>>

NextBrowsers ==
    \/ InitBrowserCall
    \/ BrowserDies
    \/ Disconnected
    \/ CloseBrowser
    \/ Cleanup

SpecBrowsers == InitBrowsers /\ [][NextBrowsers]_vars

(***************************************************************************)
(* retryWithBackoff (part_007:34-80)                                       *)
(***************************************************************************)
\* part_007:61 without the cap
delayWithJitterUncapped(currentDelay, jitter, maxDelayMs) ==
    (currentDelay * jitter) \div 100

\* part_007:60-61: Math.min(currentDelay * jitter, maxDelayMs)
delayWithJitter(currentDelay, jitter, maxDelayMs) ==
    Min((currentDelay * jitter) \div 100, maxDelayMs)

InitRetry ==
    /\ ScraperIdle
    /\ HelpersIdle("retry")
    /\ \E m \in 0..MaxAttempts,
          d \in {INITIAL_DELAY_MS, 10 * INITIAL_DELAY_MS},
          x \in {MAX_DELAY_MS, INITIAL_DELAY_MS \div 2} :
           retry = [maxAttempts |-> m, maxDelayMs |-> x, state |-> "calling",
                    attempt |-> 1, calls |-> 0, currentDelay |-> d,
                    waited |-> 0, lastError |-> 0, retryable |-> TRUE,
                    thrown |-> 0]

\* part_007:51-53: fn() resolves and its value is returned
FnSucceeds ==
    /\ retry.state = "calling"
    /\ retry.attempt <= retry.maxAttempts
    /\ retry' = [retry EXCEPT !.calls = @ + 1, !.state = "returned"]
    /\ UNCHANGED <<notHelperVars, popupState, popupCall, urls, chromium>>

\* part_007:54-69: fn() rejects with a new error, which is rethrown on the
\* last attempt or when isRetryable rejects it, and waited out otherwise; the
\* jitter factor 0.8 + Math.random() * 0.4 of part_007:60 is in hundredths
FnFails ==
    /\ retry.state = "calling"
    /\ retry.attempt <= retry.maxAttempts
    /\ \E verdict \in BOOLEAN, jitter \in {80, 100, 119} :
         LET error == retry.calls + 1
         IN  IF retry.attempt = retry.maxAttempts \/ ~verdict
             THEN retry' = [retry EXCEPT !.calls = @ + 1,
                                         !.lastError = error,
                                         !.retryable = verdict,
                                         !.state = "thrown",
                                         !.thrown = error]
             ELSE retry' = [retry EXCEPT !.calls = @ + 1,
                                         !.lastError = error,
                                         !.retryable = verdict,
                                         !.state = "waiting",
                                         !.waited =
                                             delayWithJitter(retry.currentDelay,
                                                             jitter,
                                                             retry.maxDelayMs)]
    /\ UNCHANGED <<notHelperVars, popupState, popupCall, urls, chromium>>

\* part_007:70-74: the timer fires, the delay is multiplied and capped, and
\* the loop goes to the next attempt
WaitOver ==
    /\ retry.state = "waiting"
    /\ retry' = [retry EXCEPT !.state = "calling",
                              !.attempt = @ + 1,
                              !.currentDelay =
                                  Min(@ * BACKOFF_MULTIPLIER, retry.maxDelayMs)]
    /\ UNCHANGED <<notHelperVars, popupState, popupCall, urls, chromium>>

\* part_007:50, 78: the loop is not entered and the fallback error is thrown
NoAttempt ==
    /\ retry.state = "calling"
    /\ retry.attempt > retry.maxAttempts
    /\ retry' = [retry EXCEPT !.state = "thrown", !.thrown = retry.lastError]
    /\ UNCHANGED <<notHelperVars, popupState, popupCall, urls, chromium>>

NextRetry ==
    \/ FnSucceeds
    \/ FnFails
    \/ WaitOver
    \/ NoAttempt

SpecRetry == InitRetry /\ [][NextRetry]_vars

TypeOK ==
    /\ pc \in {"idle", "create", "created", "threads", "thread", "nav", "page",
               "recover", "ingest", "check", "progress", "returned", "finish"}
    /\ consecutiveFailures \in 0..MAX_CONSECUTIVE_FAILURES
    /\ currentPage \in 1..(MaxPages + 1)
    /\ \A t \in Threads : rows[t].lastScrapedPage \in 0..MaxPages

(***************************************************************************)
(* The crawl and its resume cursor                                         *)
(***************************************************************************)
\* C1: every write that advances the persisted lastScrapedPage to a page P is
\* made after onPageData of page P has completed in the crawl that writes it.
C1_CursorOnlyAfterIngestion ==
    lastWrite.written /\ lastWrite.advanced => lastWrite.delivered

C3_CursorMonotonic ==
    [][resume /\ pc # "idle" =>
          \A t \in Threads :
              rows'[t].lastScrapedPage >= rows[t].lastScrapedPage]_vars

\* C4: in every persisted Thread row lastScrapedPage <= totalPages.
C4_CursorWithinTotal ==
    \A t \in Threads : rows[t].lastScrapedPage <= rows[t].totalPages

\* C5: the crawl is aborted when and only when five page attempts in a row
\* have failed: after five failed attempts in a row no further page of the
\* thread is fetched, the crawl ends as an abort only at the ceiling, and the
\* abort leaves the run to go on with the next thread.
C5_FiveFailedAttemptsEndCrawl ==
    /\ [](failedInRow >= MAX_CONSECUTIVE_FAILURES => pc # "page")
    /\ [](pc = "returned" /\ result.kind = "abort" =>
             consecutiveFailures = MAX_CONSECUTIVE_FAILURES)
    /\ [][pc = "returned" /\ result.kind = "abort" /\ pc' # "returned" =>
            pc' = "thread" /\ i' = i + 1 /\ runStatus' = runStatus]_vars

\* C6: the cursor returned at an abort is the last page delivered in this
\* crawl, or lies before the crawl's pages when none was delivered; it is
\* never a page that failed.
C6_AbortCursorIsLastSuccess ==
    pc = "returned" /\ result.kind = "abort" =>
        IF lastSuccess > 0 THEN result.lastScrapedPage = lastSuccess
                           ELSE result.lastScrapedPage < startFromPage

\* C7: a page attempt that fails (no posts, extraction error, timeout) adds
\* exactly one to the counter, does not abort below the ceiling, and the crawl
\* goes on with the next page; every page that yields at least one post leaves
\* the counter at 0.
C7_SingleFailureCounted ==
    /\ [][pc = "page" /\ pc' = "check" /\ outcome' \in {"empty", "error"} =>
            /\ consecutiveFailures' = consecutiveFailures + 1
            /\ currentPage' = currentPage]_vars
    /\ [][pc = "check" /\ pc' # "check" /\ outcome \in {"empty", "error"}
            /\ consecutiveFailures < MAX_CONSECUTIVE_FAILURES =>
            pc' = "progress"]_vars
    /\ [][pc = "progress" /\ pc' = "page" =>
            currentPage' = currentPage + 1]_vars
    /\ [](pc = "check" /\ outcome \in {"delivered", "datathrow"} =>
             consecutiveFailures = 0)

\* C8: after a session-fatal error the same page is tried again, and a page
\* is replayed at most once because of a relaunch.
C8_ReplayedAtMostOnce ==
    replays <= 1

(***************************************************************************)
(* Ingestion                                                               *)
(***************************************************************************)
\* C9: processPostsInBatches on a page whose posts are all persisted with the
\* same external id and body writes no Post and no ExtractedCase, leaves both
\* tables as they are with one row per external id, and never calls
\* extractCaseData.
C9_ReingestIsNoOp ==
    /\ [](lastIngest.allSame =>
             /\ lastIngest.postWrites = 0
             /\ lastIngest.caseWrites = 0
             /\ lastIngest.extractCalls = 0)
    /\ [](\A e \in ExternalIds : Cardinality(Existing(posts, e)) <= 1)
    /\ [](\A r \in posts : Cardinality({c \in cases : c.postId = r.id}) <= 1)
    /\ [][lastIngest'.allSame => posts' = posts /\ cases' = cases]_vars

C9_Witness ==
    /\ lastIngest.allSame
    /\ lastIngest.complete
    /\ Cardinality(posts) = MaxPosts
    /\ cases # {}

\* C10: every ExtractedCase row is the extraction of the current content of its
\* Post row and has a confidence above the acceptance threshold.
C10_CaseIsExtractionOfCurrentContent ==
    \A c \in cases :
        \E r \in posts :
            /\ r.id = c.postId
            /\ c.extraction = extractCaseData(r.content)
            /\ Accepted(c.extraction)

\* C11: in every state of the tables, whatever pages two runs ingest and
\* however their transactions interleave, fail and are retried, there is at
\* most one Post per external id of the thread and at most one ExtractedCase
\* per Post.
C11_OnePostPerKeyOneCasePerPost ==
    /\ \A e \in ExternalIds : Cardinality(Existing(posts, e)) <= 1
    /\ \A r \in posts : Cardinality({c \in cases : c.postId = r.id}) <= 1

\* both runs found the post missing and one of them has inserted it
C11_Witness ==
    /\ posts # {}
    /\ cases # {}
    /\ \E r \in Runs :
          /\ inflight[r].txs # <<>>
          /\ Head(inflight[r].txs).kind = "create"
          /\ \E k \in 1..Len(Head(inflight[r].txs).batch) :
                ViolatesPostKey(posts, Head(inflight[r].txs).batch[k])

\* C12: new posts are sliced into batches of at most BATCH_SIZE posts, in order
\* and without loss, and every committed state of the tables is whole: each
\* Post whose content has an accepted extraction has its ExtractedCase, and
\* each ExtractedCase has its Post, whatever attempts failed and were retried.
C12_BatchCommitsPostsWithCases ==
    /\ posts = {} =>
          \A n \in 0..MaxNewPosts :
              LET seq == [k \in 1..n |-> k]
                  batches == Batches(seq)
              IN  /\ \A b \in 1..Len(batches) :
                        Len(batches[b]) \in 1..BATCH_SIZE
                  /\ \A k \in 1..n :
                        batches[((k - 1) \div BATCH_SIZE) + 1]
                               [((k - 1) % BATCH_SIZE) + 1] = k
                  /\ Len(batches) = (n + BATCH_SIZE - 1) \div BATCH_SIZE
    /\ \A r \in posts :
          Accepted(extractCaseData(r.content)) => ViolatesCaseKey(cases, r.id)
    /\ \A c \in cases : \E r \in posts : r.id = c.postId

\* a batch has committed a post together with its case, and a transaction of a
\* run is being retried after a failed attempt
C12_Witness ==
    /\ \E r \in posts :
          /\ Accepted(extractCaseData(r.content))
          /\ ViolatesCaseKey(cases, r.id)
    /\ \E r \in Runs : inflight[r].txs # <<>> /\ inflight[r].attempts > 0

\* C13: a call of processPostsInBatches writes an ExtractedCase for a post it
\* inserts or updates exactly if extractCaseData of the content gives a
\* confidence above 0.3 (6/20), and the case it writes is that extraction.
C13_CaseWrittenIffAboveThreshold ==
    /\ [][\A r \in posts' \ posts :
             IF extractCaseData(r.content).confidence20 > 6
                 THEN \E c \in cases' :
                         /\ c.postId = r.id
                         /\ c.extraction = extractCaseData(r.content)
                 ELSE {c \in cases' : c.postId = r.id}
                        = {c \in cases : c.postId = r.id}]_vars
    /\ [][lastIngest'.caseWrites =
             Cardinality({r \in posts' \ posts :
                            extractCaseData(r.content).confidence20 > 6})]_vars
    /\ [][\A c \in cases' \ cases : \E r \in posts' \ posts : r.id = c.postId]_vars

\* the last call wrote a case, and a post whose content scores exactly 0.3 is
\* stored without one
C13_Witness ==
    /\ lastIngest.caseWrites > 0
    /\ \E r \in posts :
          /\ extractCaseData(r.content).confidence20 = 6
          /\ ~ViolatesCaseKey(cases, r.id)

(***************************************************************************)
(* Errors, shutdown and the ScrapeRun row                                  *)
(***************************************************************************)
\* C14: when onPageData throws for a page because a content write is out of
\* retries (no shutdown is requested), the crawl of that thread ends: no
\* further page of the thread is attempted in the run.
C14_WriteFailureEndsThreadCrawl ==
    [][outcome = "datathrow" /\ ~shutdownRequested => pc' # "page"]_vars

\* C15: an error raised while one thread is processed (thread upsert out of
\* retries, getPosts throwing, final progress write failing) with no shutdown
\* requested is contained: the loop goes on with the next thread, the run does
\* not end with that step and its row is not touched by it; the thread loop
\* only ends after the last thread, and a run that resolves without shutdown
\* is marked completed whatever errors were caught.
C15_ThreadErrorContained ==
    /\ [][caught' = caught + 1 /\ ~shutdownRequested =>
            /\ pc' = "thread"
            /\ i' = i + 1
            /\ runStatus' = runStatus
            /\ statusWrites' = statusWrites
            /\ ended' = ended]_vars
    /\ [](pc = "finish" /\ ~shutdownRequested => i = Len(forumPages) + 1)
    /\ [](ended = "resolved" /\ caught > 0 /\ ~shutdownRequested /\ ~dryRun =>
             runStatus = "completed")

C15_Witness ==
    /\ ended = "resolved"
    /\ caught = 1
    /\ Len(forumPages) = 2
    /\ ~shutdownRequested
    /\ runStatus = "completed"
    /\ rows[1].lastScrapedPage = 0
    /\ rows[2].lastScrapedPage > 0

\* C16: a setup-level failure aborts the whole run: when getThreads fails, or
\* when the browser session cannot be launched, the step that handles the
\* failure releases the adapter, marks the ScrapeRun row failed and ends
\* runScraper with the error thrown to its caller.
C16_SetupFailureAbortsRun ==
    [][(\/ pc = "threads" /\ pc' = "idle" /\ ~shutdownRequested
        \/ outcome' = "launch" /\ pc = "thread") =>
          /\ ended' = "rejected"
          /\ ~sessionLive'
          /\ ~dryRun => runStatus' = "failed"]_vars

\* C17: every ScrapeRun row that was created gets exactly one terminal status
\* write (completed or failed): never a second one, and one has been made
\* when the run has ended, also when a shutdown signal arrived during the run
\* or the run ended by an error.
C17_OneTerminalStatusWrite ==
    /\ statusWrites <= 1
    /\ ended # "none" /\ runStatus # "none" => statusWrites = 1

\* C18: once the process has ended (runScraper resolved, rejected, or the
\* process exited after gracefulShutdown, whenever the signal arrived) the
\* ScrapeRun row it created does not have the status running.
C18_NoRunLeftRunning ==
    ended # "none" => runStatus # "running"

\* C19: once the shutdown flag is set no page navigation of the thread
\* begins: no page attempt made while the flag is set moves the session to
\* another page.
C19_NoNavigationAfterShutdown ==
    [][shutdownRequested =>
          ~(pc = "page" /\ pc' = "check" /\ loaded' # loaded)]_vars

\* C20: in a crawl that started at the persisted cursor (or at page 1 of a
\* thread never scraped), in which no page attempt failed before shutdown was
\* requested, and that is cancelled at any point, the page a resumed run
\* would start from is not after any page of the crawl whose posts were not
\* all saved, nor after the page the crawl had reached; the writes made while
\* the cancelled crawl unwinds keep it so.
C20_CancelledCrawlIsRefetched ==
    /\ [](/\ shutdownRequested
          /\ pc \in {"nav", "page", "recover", "ingest", "check", "progress",
                     "returned"}
          /\ startFromPage = Max(cursorAtStart, 1)
          /\ ~failedBefore
          => /\ StartFromPage(TRUE, rows[i].lastScrapedPage) <= currentPage
             /\ firstUnsaved > 0 =>
                   StartFromPage(TRUE, rows[i].lastScrapedPage) <= firstUnsaved)
    /\ [][/\ shutdownRequested
          /\ pc = "returned"
          /\ startFromPage = Max(cursorAtStart, 1)
          /\ ~failedBefore
          /\ firstUnsaved > 0
          => StartFromPage(TRUE, rows'[i].lastScrapedPage) <= firstUnsaved]_vars

C20_Witness ==
    /\ pc = "returned"
    /\ shutdownRequested
    /\ startFromPage = Max(cursorAtStart, 1)
    /\ ~failedBefore
    /\ outcome = "cut"
    /\ firstUnsaved = PAGES_PER_CHUNK
    /\ rows[i].lastScrapedPage = firstUnsaved
    /\ cursorAtStart < firstUnsaved

(***************************************************************************)
(* The page loop as producer of page batches                               *)
(***************************************************************************)
\* C21: the page loop moves to the next page only from the end of onProgress
\* of the current page, and then by exactly one page; while onPageData of a
\* page is running nothing else of the crawl moves (one page in flight); and
\* a page is handed to onPageData only if it lies after every page delivered
\* before it in the crawl.
C21_OnePageInFlightInOrder ==
    /\ [][pc' = "page" /\ currentPage' # currentPage =>
             pc = "progress" /\ currentPage' = currentPage + 1]_vars
    /\ [][pc = "ingest" /\ pc' # "idle" =>
             /\ pc' \in {"ingest", "check"}
             /\ currentPage' = currentPage
             /\ loaded' = loaded]_vars
    /\ [][pc = "page" /\ pc' \in {"ingest", "check"} =>
             lastSuccess < currentPage]_vars

C21_Witness ==
    /\ pc = "ingest"
    /\ currentPage = 3
    /\ lastSuccess = 2
    /\ prevDelivered
    /\ startFromPage = 1

\* C22: cleanup() can be called in any state of the adapter (no browser ever
\* launched, launch failed, browser dead, already cleaned up) and any number
\* of times: every call leaves the adapter without a browser handle, and the
\* call at the normal end of a run never throws, so the run resolves.
C22_CleanupAlwaysReleases ==
    /\ [][cleanups' > cleanups => browser' = "none"]_vars
    /\ [][pc = "finish" /\ pc' = "idle" /\ ended' # "exit" =>
             ended' = "resolved" /\ cleanups' = cleanups + 1]_vars

C22_Witness ==
    /\ cleanups = 2
    /\ released
    /\ ended = "resolved"
    /\ browser = "none"

\* C23: a dry run makes no database write: no ScrapeRun row is created or
\* updated, no Thread is upserted, no cursor or checkpoint is saved and no
\* Post or ExtractedCase is written, whatever the crawl delivers and however
\* the run ends.
C23_DryRunWritesNothing ==
    /\ [](dryRun /\ pc # "idle" => ~wrote /\ runStatus = "none" /\ statusWrites = 0)
    /\ [][dryRun /\ pc # "idle" =>
             /\ rows' = rows
             /\ posts' = posts
             /\ cases' = cases
             /\ ~wrote'
             /\ runStatus' = "none"]_vars

C23_Witness ==
    /\ dryRun
    /\ pc = "returned"
    /\ result.kind = "normal"
    /\ lastSuccess = MaxPages
    /\ ~wrote
    /\ rows[i].lastScrapedPage = PAGES_PER_CHUNK

\* C24: whenever the application date and the decision date both parse, the
\* extraction sets waitingDays exactly when the decision lies more than 0 and
\* fewer than 1000 whole days after the application, and then to that
\* difference; otherwise it leaves waitingDays out and attaches the note.
C24_WaitingDaysWindow ==
    extracted # <<>> =>
        LET e == extracted[1]
            diff == e.decisionDate - e.applicationDate
        IN  e.applicationDate # NoDate /\ e.decisionDate # NoDate =>
                IF 0 < diff /\ diff < 1000
                THEN /\ e.waitingDays = diff
                     /\ "Calculated waiting days seem invalid" \notin e.notes
                ELSE /\ e.waitingDays = 0
                     /\ "Calculated waiting days seem invalid" \in e.notes

C24_Witness ==
    /\ extracted # <<>>
    /\ text.decDay - text.appDay = 1000
    /\ extracted[1].applicationDate = text.appDay
    /\ extracted[1].decisionDate = text.decDay
    /\ "Calculated waiting days seem invalid" \in extracted[1].notes

\* C25: adding one recognised signal (a labelled route, an application date,
\* a decision date, a biometrics date, an outcome keyword or a service-centre
\* name) to a post that lacked it never lowers the confidence, whatever the
\* other signals of the post are.
C25_SignalsNeverLowerConfidence ==
    extracted = <<extractCaseData(text)>> =>
        LET parsable == {d \in Days : parseFlexibleDate(d, now) # NoDate}
            richer ==
                (IF text.label THEN {} ELSE {[text EXCEPT !.label = TRUE]})
                \cup {[text EXCEPT !.appDay = d] :
                        d \in IF text.appDay = NoDate THEN parsable ELSE {}}
                \cup {[text EXCEPT !.decDay = d] :
                        d \in IF text.decDay = NoDate THEN parsable ELSE {}}
                \cup {[text EXCEPT !.bioDay = d] :
                        d \in IF text.bioDay = NoDate THEN parsable ELSE {}}
                \cup (IF text.approval THEN {}
                                       ELSE {[text EXCEPT !.approval = TRUE]})
                \cup (IF text.refusal THEN {}
                                      ELSE {[text EXCEPT !.refusal = TRUE]})
                \cup (IF text.pending THEN {}
                                      ELSE {[text EXCEPT !.pending = TRUE]})
                \cup (IF text.center THEN {} ELSE {[text EXCEPT !.center = TRUE]})
        IN  \A more \in richer :
                extractCaseData(more).confidence20 >= extracted[1].confidence20

C25_Witness ==
    /\ text.label
    /\ text.mention = "set"
    /\ text.decDay - text.appDay = 1
    /\ extracted = <<extractCaseData(text)>>
    /\ extractCaseData([text EXCEPT !.label = FALSE]).confidence20
         = extracted[1].confidence20 - 2

\* C26: extractCaseData is a function of the post text and the rule version
\* alone: two evaluations of the same text return the same fields and the
\* same confidence, whenever they are made.
C26_ExtractionIsDeterministic ==
    earlier # <<>> => extracted = earlier

\* C27: for every properly nested blockquote structure, the cleaned body of a
\* post holds exactly the text outside all blockquotes: no text inside a
\* quote at any depth (the text of an outer quote behind an inner quote
\* included) is left, and all text outside quotes is kept.
C27_QuotesRemovedAtEveryDepth ==
    plainText # NotCleaned =>
        LET Depth(k) == Cardinality({j \in 1..k : html[j] = OpenTag})
                          - Cardinality({j \in 1..k : html[j] = CloseTag})
            outside == {html[k] : k \in {j \in 1..Len(html) :
                            html[j] \notin {OpenTag, CloseTag} /\ Depth(j) = 0}}
        IN  {plainText[k] : k \in 1..Len(plainText)} = outside

\* C28: the page of the session is used by one task at a time: whenever the
\* page loop makes a page attempt, no earlier attempt, one abandoned by the
\* per-page timeout included, is still running against the same page.
C28_OneTaskPerPage ==
    [][pc = "page" /\ (pc' \in {"ingest", "check"} \/ replays' > replays)
          => ~stray]_vars

\* C29: the crawl of a thread always terminates: whatever the outcomes of
\* its page attempts are, a page whose every attempt kills the session
\* included, getPosts eventually returns.
C29_CrawlTerminates ==
    (pc = "page")
        ~> (pc \notin {"nav", "page", "recover", "ingest", "check", "progress"})

\* C30: every extraction for a page runs on a session that has navigated to
\* that page: also after a relaunch, and also when the replayed page is the
\* page the crawl started from, the page is loaded in the new session before
\* its posts are extracted.
C30_ExtractionOnLoadedPage ==
    [][/\ pc = "page"
       /\ \/ pc' = "ingest"
          \/ pc' = "check" /\ outcome' \in {"empty", "datathrow"}
       => loaded' = currentPage]_vars

C32_RetryIsBounded ==
    /\ retry.calls <= retry.maxAttempts
    /\ retry.state = "returned"
       => retry.calls = retry.attempt /\ retry.lastError = retry.calls - 1
    /\ retry.state = "thrown"
       => /\ retry.thrown = retry.lastError
          /\ retry.lastError = retry.calls
          /\ retry.calls = retry.maxAttempts \/ ~retry.retryable
    /\ retry.state \in {"calling", "waiting"} => retry.retryable
    /\ retry.waited <= retry.maxDelayMs

C32_Witness ==
    /\ retry.state = "thrown"
    /\ retry.maxAttempts = MaxAttempts
    /\ retry.calls = MaxAttempts
    /\ retry.retryable
    /\ retry.waited = retry.maxDelayMs
    /\ retry.maxDelayMs < INITIAL_DELAY_MS

\* C33: every page attempt of a thread other than the first is preceded by
\* one delay of RATE_LIMIT_MIN..RATE_LIMIT_MAX ms slept since the attempt
\* before it, the replay of a page after a session relaunch included; no
\* delay precedes the first attempt.
C33_JitterBetweenFetches ==
    [][pc = "page" /\ pc' \in {"ingest", "check", "recover"}
       => IF currentPage = startFromPage /\ replays = 0
          THEN waitTime = 0
          ELSE waitTime \in RATE_LIMIT_MIN..RATE_LIMIT_MAX]_vars

\* C34: a flag of popupState goes from handled to unhandled only in a step
\* that starts a crawl or relaunches the session, and every such step leaves
\* all four flags unhandled; in between a flag only goes from unhandled to
\* handled; and a call of handlePopups made with all four flags handled
\* looks for nothing and changes nothing.
C34_PopupFlagsPerSession ==
    [][/\ (\E f \in PopupFlags : popupState[f] /\ ~popupState'[f])
          => popupCall'.sessions # popupCall.sessions
       /\ popupCall'.sessions # popupCall.sessions => popupState' = AllUnhandled
       /\ popupCall.step = "idle" /\ AllHandled(popupState)
          /\ popupCall'.sessions = popupCall.sessions
          => /\ popupState' = popupState
             /\ popupCall'.step = "idle"
             /\ ~popupCall'.checked]_vars

C34_Witness ==
    /\ popupCall.origin = "relaunch"
    /\ popupCall.step = "idle"
    /\ popupCall.checked
    /\ AllHandled(popupState)

\* C35: the confidence is min(1, S / 10), S being the sum of the weights of
\* the signals extracted: labelled route 2, application date 1.5, decision
\* date 1.5, a waiting time of 1 to 999 days 2, biometrics date 0.5, an
\* outcome of any class (approved, rejected or pending) 1, service centre
\* 0.5, and, only without a labelled route, 0.5 to 1 for an inferred route.
\* (confidence20 is the confidence in twentieths: the weights are doubled.)
C35_ConfidenceRubric ==
    extracted # <<>> =>
        LET e == extracted[1]
            S == (IF e.applicationRoute = "labeled" THEN 4 ELSE 0)
                 + (IF e.applicationDate # NoDate THEN 3 ELSE 0)
                 + (IF e.decisionDate # NoDate THEN 3 ELSE 0)
                 + (IF e.waitingDays \in 1..(WAIT_LIMIT - 1) THEN 4 ELSE 0)
                 + (IF e.biometricsDate # NoDate THEN 1 ELSE 0)
                 + (IF e.outcome # "none" THEN 2 ELSE 0)
                 + (IF e.serviceCenter THEN 1 ELSE 0)
            fallback == IF e.applicationRoute = "labeled" \/ ~e.applicationType
                        THEN {0} ELSE {1, 2}
        IN  \E inferred \in fallback : e.confidence20 = Min(S + inferred, 20)

\* C37: the outcome is approved whenever an approval indicator is in the
\* post, rejected only when none is and a rejection indicator is, pending
\* only when neither is and a pending indicator is, and none when the post
\* has no indicator of any class.
C37_OutcomePriority ==
    extracted = <<extractCaseData(text)>> =>
        LET e == extracted[1]
        IN  /\ e.outcome = "approved" <=> text.approval
            /\ e.outcome = "rejected" <=> ~text.approval /\ text.refusal
            /\ e.outcome = "pending"
                  <=> ~text.approval /\ ~text.refusal /\ text.pending
            /\ e.outcome = "none"
                  <=> ~text.approval /\ ~text.refusal /\ ~text.pending

C37_Witness ==
    /\ extracted = <<extractCaseData(text)>>
    /\ text.approval /\ text.refusal /\ text.pending
    /\ extracted[1].outcome = "approved"

\* C36: a post whose extraction has the raw score 3 of 10, that is the
\* confidence 0.3 (6/20), is accepted: a call of processPostsInBatches that
\* inserts or updates it writes its ExtractedCase.
C36_ScoreThreeAccepted ==
    [][\A r \in posts' \ posts :
          extractCaseData(r.content).confidence20 = 6
              => \E c \in cases' : c.postId = r.id]_vars

\* C38: wherever the sid parameter stands in the query of a thread URL, the
\* stripped URL holds no sid, holds every other parameter in its place, is
\* well formed with the "?" in front of the first parameter, and is left as
\* it is by a second stripping; and the URL of a page behind the first is
\* that URL with the offset (page - 1) * pageSize as one more parameter.
C38_StripSessionIdWellFormed ==
    /\ urls.cleanUrl # <<>>
       => /\ \A k \in 1..Len(urls.cleanUrl) : urls.cleanUrl[k] # "sid"
          /\ SelectSeq(urls.cleanUrl, LAMBDA x : x \in Params)
               = SelectSeq(urls.threadUrl, LAMBDA x : x \in Params \ {"sid"})
          /\ WellFormed(urls.cleanUrl)
          /\ stripSessionId(urls.cleanUrl) = urls.cleanUrl
    /\ urls.pageUrl # <<>>
       => /\ WellFormed(urls.pageUrl)
          /\ urls.start > 0
             => /\ urls.pageUrl = stripSessionId(urls.threadUrl) \o <<"&", "start">>
                /\ \E pageNum \in 1..MaxUrlPage :
                      urls.start = (pageNum - 1) * POSTS_PER_PAGE

\* C39: the handle of the adapter is the browser it launched last for as
\* long as that browser is open: the 'disconnected' event of an earlier
\* browser never clears the handle of a newer one; so every open browser is
\* the one of the handle, and when cleanup() has returned no browser the
\* adapter launched is open.
C39_NoBrowserLeftOpen ==
    [][/\ \A b \in chromium.connected \ chromium'.connected :
             chromium.handle \notin {0, b} => chromium'.handle = chromium.handle
       /\ chromium'.open \subseteq {chromium'.handle}
       /\ chromium'.cleaned => chromium'.open = {}]_vars

====
